---- MODULE Spec2Model ----
(***************************************************************************)
(* Model of the document pipeline of llm-rag-docker:                       *)
(*   app/components/document_processor.py  (DocumentProcessor)             *)
(*   app/app.py                            (RAGSystemApp.process_documents)*)
(*   app/utils/vector_store.py             (VectorStoreManager)            *)
(*                                                                         *)
(* Text is a sequence of one-character strings.  An uploaded file is an    *)
(* object with a name, a content and a read position (a BytesIO).          *)
(* The chunker is langchain's RecursiveCharacterTextSplitter as it is      *)
(* configured at document_processor.py:54-59 (keep_separator defaults to   *)
(* True, strip_whitespace to True); every piece and every chunk it makes   *)
(* is a contiguous slice of the text, so the model computes with slices    *)
(* <<lo, hi>> of the text and takes the characters at the end.             *)
(***************************************************************************)
EXTENDS Integers, Sequences, FiniteSets, TLC

VARIABLES
    uploaded_files,   \* the file objects handed to the pipeline (name, content, read position)
    cfg,              \* [ocr_enabled, chunk_size, chunk_overlap] chosen for the run
    pc,               \* where process_documents (or the caller of process_file) stands
    idx,              \* process_documents: number of files of the batch already handled
    all_documents,    \* process_documents: the aggregated chunks
    progress,         \* values given to progress_bar.progress, as <<numerator, denominator>>
    vectorstore,      \* st.session_state.vectorstore (None or a Chroma handle)
    processed_docs,   \* st.session_state.processed_docs
    outcomes,         \* the outcome of every process_file call so far, in call order
    split_calls,      \* every text handed to text_splitter.split_text so far
    index_calls,      \* every document list handed to create_vectorstore so far
    st_errors,        \* messages shown by st.error in process_documents
    runs,             \* number of process_documents runs started in the session
    tmp_dir,          \* number of files the extractors left in the temporary directory
    ocr_call,         \* the last call made on the OCR code, with its arguments and result
    db,               \* the directory db_path of the vector store and what is persisted in it
    current_model,    \* st.session_state.current_model ("None" or the name of the model)
    file_infos        \* what every get_file_info call so far was handed and returned

vars == <<uploaded_files, cfg, pc, idx, all_documents, progress, vectorstore,
          processed_docs, outcomes, split_calls, index_calls, st_errors, runs,
          tmp_dir, ocr_call, db, current_model, file_infos>>

-----------------------------------------------------------------------------
(* Bounds of the model *)

\* longest plain-text content enumerated exhaustively
MaxTextLen == 5
\* largest chunk_size (and chunk_overlap) enumerated exhaustively
MaxChunkSize == 3
\* number of process_file calls made on one file object
MaxCalls == 2
\* largest number of files uploaded in one batch
MaxBatch == 2
\* number of times "Process Documents" is pressed in one session
MaxRuns == 1
\* largest batch, and number of times "Process Documents" is pressed, in the
\* sessions in which the database is also cleared
MaxSessionBatch == 2
MaxSessionRuns == 2
\* largest number of pages of the enumerated PDF files
MaxPages == 2
\* largest number of body elements of the enumerated DOCX files
MaxBody == 2
\* longest byte content enumerated over RawBytes
MaxRawLen == 3
\* largest number of lines cv2.HoughLines detects on the enumerated images
MaxLines == 3
\* largest number of lines of the enumerated outputs of pytesseract.image_to_osd
MaxOsdLines == 3

-----------------------------------------------------------------------------
(* Characters, strings and bytes *)

NL == "\n"
SP == " "

\* the characters str.strip() and the separators treat as whitespace
Whitespace == {SP, NL}

\* bytes of the short text files: 'a', 'b', ' ', '\n'
AsciiBytes == {97, 98, 32, 10}

\* bytes of the files whose decoding is examined: 'a', ' ', 0xC3 (the lead byte
\* of a two-byte UTF-8 sequence), 0xA9 (a continuation byte: C3 A9 is e-acute)
\* and 0xFF (never valid in UTF-8)
RawBytes == {97, 32, 195, 169, 255}

\* bytes.decode('latin-1') maps every byte to the code point of the same number
Latin1Char(b) ==
    CASE b = 97 -> "a"
      [] b = 98 -> "b"
      [] b = 32 -> SP
      [] b = 10 -> NL
      [] b = 46 -> "."
      [] b = 72 -> "H"
      [] b = 100 -> "d"
      [] b = 101 -> "e"
      [] b = 108 -> "l"
      [] b = 111 -> "o"
      [] b = 114 -> "r"
      [] b = 119 -> "w"
      [] b = 195 -> "A_tilde"
      [] b = 169 -> "copyright"
      [] OTHER  -> "y_diaeresis"

Latin1Decode(bs) == [k \in 1..Len(bs) |-> Latin1Char(bs[k])]

\* bytes.decode('utf-8') over the bytes of the model: a byte below 0x80 is a
\* one-byte code point, a byte in C2..DF followed by a byte in 80..BF is a
\* two-byte code point, and every other byte of the model (a continuation byte
\* on its own, a lead byte without its continuation, 0xFF) is a decode error
IsUtf8Lead2(b) == b >= 194 /\ b <= 223
IsUtf8Continuation(b) == b >= 128 /\ b <= 191

\* the code point of the two-byte sequence <<lead, cont>>
Utf8Char2(lead, cont) ==
    IF lead = 195 /\ cont = 169 THEN "e_acute"
    ELSE "other_code_point"

\* a lead byte is never a continuation byte, so a byte string is valid exactly
\* when every lead byte is followed by a continuation byte and every
\* continuation byte follows a lead byte
Utf8Valid(bs) ==
    \A k \in 1..Len(bs) :
        \/ bs[k] < 128
        \/ IsUtf8Lead2(bs[k]) /\ k < Len(bs) /\ IsUtf8Continuation(bs[k + 1])
        \/ IsUtf8Continuation(bs[k]) /\ k > 1 /\ IsUtf8Lead2(bs[k - 1])

\* the code points of a valid byte string: one for every byte that starts a sequence
Utf8Decode(bs) ==
    LET starts == SelectSeq([k \in 1..Len(bs) |-> k],
                            LAMBDA k : ~IsUtf8Continuation(bs[k]))
    IN  [j \in 1..Len(starts) |->
            IF bs[starts[j]] < 128 THEN Latin1Char(bs[starts[j]])
            ELSE Utf8Char2(bs[starts[j]], bs[starts[j] + 1])]

\* str.lower() on one character: an ASCII capital becomes its small letter
LowerChar(c) ==
    LET upper == <<"A", "B", "C", "D", "E", "F", "G", "H", "I", "J", "K", "L", "M",
                   "N", "O", "P", "Q", "R", "S", "T", "U", "V", "W", "X", "Y", "Z">>
        lower == <<"a", "b", "c", "d", "e", "f", "g", "h", "i", "j", "k", "l", "m",
                   "n", "o", "p", "q", "r", "s", "t", "u", "v", "w", "x", "y", "z">>
        at == {k \in 1..Len(upper) : upper[k] = c}
    IN  IF at = {} THEN c ELSE lower[CHOOSE k \in at : TRUE]

Lower(s) == [k \in 1..Len(s) |-> LowerChar(s[k])]

\* name.split('.')[-1]: what follows the last '.', the whole name when it has none
LastDotPart(name) ==
    LET dots == {k \in 1..Len(name) : name[k] = "."}
    IN  IF dots = {} THEN name
        ELSE LET last == CHOOSE k \in dots : \A j \in dots : j <= k
             IN  SubSeq(name, last + 1, Len(name))

\* str.strip() scans past the whitespace at either end
RECURSIVE SkipLeft(_, _, _)
SkipLeft(t, lo, hi) ==
    IF lo <= hi /\ t[lo] \in Whitespace THEN SkipLeft(t, lo + 1, hi) ELSE lo

RECURSIVE SkipRight(_, _, _)
SkipRight(t, lo, hi) ==
    IF lo <= hi /\ t[hi] \in Whitespace THEN SkipRight(t, lo, hi - 1) ELSE hi

\* the slice of t left by str.strip(): <<lo, hi>> shrunk past whitespace at both
\* ends; lo > hi when nothing is left
StripSlice(t, lo, hi) ==
    LET first == SkipLeft(t, lo, hi)
    IN  <<first, SkipRight(t, first, hi)>>

Strip(t) ==
    LET s == StripSlice(t, 1, Len(t))
    IN  SubSeq(t, s[1], s[2])

-----------------------------------------------------------------------------
(* RecursiveCharacterTextSplitter(chunk_size, chunk_overlap, length_function=len,
   separators=["\n\n", "\n", " ", ""]).split_text, on slices <<lo, hi>> of a text t *)

\* separators=["\n\n", "\n", " ", ""] (document_processor.py:58)
Separators == << <<NL, NL>>, <<NL>>, <<SP>>, <<>> >>

SliceLen(s) == s[2] - s[1] + 1

\* whether sep (non-empty) stands in t at position k, inside lo..hi
MatchAt(t, k, hi, sep) ==
    /\ k + Len(sep) - 1 <= hi
    /\ \A j \in 1..Len(sep) : t[k + j - 1] = sep[j]

\* re.search(separator, text) on the slice
SepOccurs(t, lo, hi, sep) == \E k \in lo..hi : MatchAt(t, k, hi, sep)

\* where re.split finds the separator: the leftmost matches that do not overlap.
\* A separator of the list repeats one character, so inside a run of that
\* character the matches start at every Len(sep)-th position of the run
IsMatchStart(t, lo, hi, sep, k) ==
    /\ MatchAt(t, k, hi, sep)
    /\ \/ Len(sep) = 1
       \/ LET others == {j \in lo..(k - 1) : t[j] # sep[1]}
              runStart == IF others = {} THEN lo
                          ELSE 1 + CHOOSE j \in others : \A i \in others : i <= j
          IN  (k - runStart) % Len(sep) = 0

\* _split_text_with_regex(text, separator, keep_separator=True): the text is cut
\* in front of every match, so each separator opens the piece that follows it;
\* with the empty separator the pieces are the characters; empty pieces are dropped
SplitWithRegex(t, lo, hi, sep) ==
    IF sep = <<>>
    THEN [j \in 1..(hi - lo + 1) |-> <<lo + j - 1, lo + j - 1>>]
    ELSE LET IsCut(k) == k = lo \/ IsMatchStart(t, lo, hi, sep, k)
             cuts == SelectSeq([j \in 1..(hi - lo + 1) |-> lo + j - 1], IsCut)
         IN  [j \in 1..Len(cuts) |->
                <<cuts[j], IF j < Len(cuts) THEN cuts[j + 1] - 1 ELSE hi>>]

\* _join_docs: separator.join(docs).strip(), None (here <<>>) when nothing is left,
\* else the one-element list of the chunk's slice.  The pieces a..b lie side by
\* side in t and are joined with "" (keep_separator is True), so the joined
\* string is the slice from the start of piece a to the end of piece b
JoinDocs(t, pieces, a, b) ==
    IF a > b THEN <<>>
    ELSE LET s == StripSlice(t, pieces[a][1], pieces[b][2])
         IN  IF s[1] > s[2] THEN <<>> ELSE <<s>>

\* `total` of _merge_splits when current_doc is pieces a..b: the sum of their
\* lengths (the separator joined with is "", of length 0)
Total(pieces, a, b) == IF a > b THEN 0 ELSE pieces[b][2] - pieces[a][1] + 1

Least(S) == CHOOSE x \in S : \A y \in S : x <= y

\* the test `... > self._chunk_size` of _merge_splits
ExceedsChunkOffByOne(len, S) == len >= S

ExceedsChunk(len, S) == len > S

\* a PopFront that only looks at the overlap
PopFrontOverlapOnly(pieces, a, j, S, O) ==
    LET Pops(x) == Total(pieces, x, j - 1) > O
    IN  Least({x \in a..j : ~Pops(x)})

\* a PopFront that only looks at whether the next piece fits
PopFrontFitOnly(pieces, a, j, S, O) ==
    LET dlen == SliceLen(pieces[j])
        Pops(x) == LET total == Total(pieces, x, j - 1)
                   IN  total + dlen > S /\ total > 0
    IN  Least({x \in a..j : ~Pops(x)})

\* the while loop of _merge_splits before piece j is appended: pieces are dropped
\* from the front of current_doc (pieces a..j-1) while it is longer than the
\* overlap, or while piece j does not fit behind it; the result is the first
\* piece that stays
PopFront(pieces, a, j, S, O) ==
    LET dlen == SliceLen(pieces[j])
        Pops(x) == LET total == Total(pieces, x, j - 1)
                   IN  total > O \/ (ExceedsChunk(total + dlen, S) /\ total > 0)
    IN  Least({x \in a..j : ~Pops(x)})

\* _merge_splits(splits, separator), from the point where current_doc is pieces
\* a..j-1 and piece j comes next: pieces are appended up to the first piece J that
\* would make a non-empty current_doc longer than chunk_size; there current_doc
\* is emitted and shortened from the front, and the loop goes on behind J
RECURSIVE MergeLoop(_, _, _, _, _, _, _)
MergeLoop(t, pieces, j, a, docs, S, O) ==
    LET full == {x \in j..Len(pieces) : x > a /\ ExceedsChunk(Total(pieces, a, x), S)}
    IN  IF full = {}
        THEN docs \o JoinDocs(t, pieces, a, Len(pieces))
        ELSE LET J == Least(full)
             IN  MergeLoop(t, pieces, J + 1, PopFront(pieces, a, J, S, O),
                           docs \o JoinDocs(t, pieces, a, J - 1), S, O)

\* a _merge_splits that forgets the current_doc left when the loop ends
MergeSplitsNoTail(t, pieces, S, O) ==
    LET docs == MergeLoop(t, pieces, 1, 1, <<>>, S, O)
    IN  SubSeq(docs, 1, Len(docs) - 1)

MergeSplits(t, pieces, S, O) == MergeLoop(t, pieces, 1, 1, <<>>, S, O)

\* the separator _split_text picks among separators[from..]: the first that is ""
\* or occurs in the text
RECURSIVE PickSeparator(_, _, _, _)
PickSeparator(t, lo, hi, from) ==
    IF Separators[from] = <<>> \/ SepOccurs(t, lo, hi, Separators[from])
    THEN from
    ELSE PickSeparator(t, lo, hi, from + 1)

\* whether a piece goes to _good_splits (document_processor.py:55: chunk_size)
IsGoodSplit(piece, S) == SliceLen(piece) < S

\* _split_text(text, separators): pieces shorter than chunk_size are merged, a
\* longer one is split again with the remaining separators, or kept as it is when
\* none remain (new_separators is empty exactly when "" was picked).  SplitLoop
\* is the loop from piece j on, with _good_splits empty
RECURSIVE SplitText(_, _, _, _, _, _)
RECURSIVE SplitLoop(_, _, _, _, _, _, _)
SplitLoop(t, pieces, j, picked, final, S, O) ==
    LET long == {x \in j..Len(pieces) : ~IsGoodSplit(pieces[x], S)}
        Flush(b) == IF j <= b THEN MergeSplits(t, SubSeq(pieces, j, b), S, O) ELSE <<>>
    IN  IF long = {} THEN final \o Flush(Len(pieces))
        ELSE LET J == Least(long)
                 other == IF Separators[picked] = <<>>
                          THEN <<pieces[J]>>
                          ELSE SplitText(t, pieces[J][1], pieces[J][2], picked + 1, S, O)
             IN  SplitLoop(t, pieces, J + 1, picked, final \o Flush(J - 1) \o other, S, O)

SplitText(t, lo, hi, from, S, O) ==
    LET picked == PickSeparator(t, lo, hi, from)
        pieces == SplitWithRegex(t, lo, hi, Separators[picked])
    IN  SplitLoop(t, pieces, 1, picked, <<>>, S, O)

\* split_text(text), as the slices of text that the chunks are
SplitSlices(t, S, O) == SplitText(t, 1, Len(t), 1, S, O)

\* split_text(text): the chunk strings
split_text(t, S, O) ==
    LET sl == SplitSlices(t, S, O)
    IN  [k \in 1..Len(sl) |-> SubSeq(t, sl[k][1], sl[k][2])]


-----------------------------------------------------------------------------
(* Uploaded files.  A file object is
     [name, fmt, bytes, pages, body, ocr, pos, fault]
   fmt says what its content really is: "text" (bytes), "pdf" (pages, each with
   its native text layer and what the OCR engine reads on its raster), "docx"
   (the paragraphs and tables of its body, in document order) or "image" (what
   the OCR engine reads on it).  pos is the read position of the underlying
   BytesIO.  fault is the step at which the
   environment fails while this upload is extracted: "write" (the temporary
   directory cannot take the bytes), "extract" (the library raises while the
   opened document is walked) or "none". *)

\* len of the content: the bytes of a text file; other contents count as one block
Size(f) == IF f.fmt = "text" THEN Len(f.bytes) ELSE 1

\* uploaded_file.read(): the content from the read position on; the position
\* moves to the end
ReadBytes(f) == SubSeq(f.bytes, f.pos + 1, Len(f.bytes))

\* whether read() of a non-text file yields the complete document
ReadsWhole(f) == f.pos = 0

AfterRead(f) == [f EXCEPT !.pos = Size(f)]

\* what an extractor hands back: the text, the file object as it leaves it, the
\* exception it raised ("" when it returned) and the number of OCR engine runs
Extracted(text, f, exc, ocr_runs) ==
    [text |-> text, file |-> f, exc |-> exc, ocr_runs |-> ocr_runs,
     ocr_pages |-> <<>>, tmp_created |-> 0, tmp_left |-> 0]

\* an extractor that made `created` temporary files and left `left` of them behind
WithTmp(x, created, left) == [x EXCEPT !.tmp_created = created, !.tmp_left = left]

\* try: ... finally: os.unlink(tmp_path) around the body of an extractor
\* (document_processor.py:95-120, 141-162)
Unlinked(x) == WithTmp(x, 1, 0)

\* with tempfile.NamedTemporaryFile(delete=False) as tmp_file:
\*     tmp_file.write(uploaded_file.read())
\* raised: the file exists, is closed by the with block, and no finally clause
\* covers it (document_processor.py:91-93, 137-139)
WriteFailed(f) == WithTmp(Extracted(<<>>, AfterRead(f), "OSError", 0), 1, 1)

\* what happens when an image goes through _ocr_image is part of the image: the
\* step that raises on it ("convert": np.array or cv2.cvtColor, "preprocess":
\* _preprocess_image, "recognize": pytesseract.image_to_string, or "none") and the
\* text the engine reads on it
OcrFaults == {"none", "convert", "preprocess", "recognize"}

\* whether _ocr_image gets as far as calling pytesseract.image_to_string
\* (document_processor.py:176-186): nothing before the call raised
EngineInvoked(o) == o.fault \in {"none", "recognize"}

\* _ocr_image: the engine's output stripped, "" when anything in it raised
\* (document_processor.py:172-195)
ocr_image(o) == IF o.fault = "none" THEN Strip(o.text) ELSE <<>>

\* a fallback that forgets uploaded_file.seek(0): the second read() starts where
\* the first one ended
process_txt_without_seek(f, ocr_enabled) ==
    LET first == ReadBytes(f)
    IN  IF Utf8Valid(first)
        THEN Extracted(Utf8Decode(first), AfterRead(f), "", 0)
        ELSE Extracted(Latin1Decode(ReadBytes(AfterRead(f))), AfterRead(f), "", 0)

\* _process_txt (document_processor.py:124-133)
process_txt(f, ocr_enabled) ==
    LET first == ReadBytes(f)
    IN  IF Utf8Valid(first)
        THEN Extracted(Utf8Decode(first), AfterRead(f), "", 0)
        ELSE \* except UnicodeDecodeError: seek(0), read again, decode latin-1
             Extracted(Latin1Decode(f.bytes), AfterRead(f), "", 0)

\* str(page_num + 1) for the page numbers of the model
PageNumber(k) ==
    CASE k = 1 -> <<"1">>
      [] k = 2 -> <<"2">>
      [] k = 3 -> <<"3">>
      [] k = 4 -> <<"4">>
      [] OTHER -> <<"9">>

\* f"Page {page_num + 1}:\n{text}"
PageEntry(k, text) == <<"P", "a", "g", "e", SP>> \o PageNumber(k) \o <<":", NL>> \o text

\* "\n\n".join(text_content)
RECURSIVE JoinParagraphs(_)
JoinParagraphs(parts) ==
    IF parts = <<>> THEN <<>>
    ELSE IF Len(parts) = 1 THEN parts[1]
    ELSE parts[1] \o <<NL, NL>> \o JoinParagraphs(Tail(parts))

\* an OCR fallback that does not look at the flag
PageUsesOcrIgnoringFlag(page, ocr_enabled) == Strip(page.native) = <<>>

\* the text of page k: the native layer, or the OCR output when the layer is
\* blank and OCR is enabled (document_processor.py:100-112)
PageUsesOcr(page, ocr_enabled) == Strip(page.native) = <<>> /\ ocr_enabled

PageText(page, ocr_enabled) ==
    IF PageUsesOcr(page, ocr_enabled) THEN ocr_image(page.ocr) ELSE page.native

\* a loop that numbers the pages it keeps 1, 2, 3, ... instead of by position
PdfEntriesRenumbered(pages, k, ocr_enabled) ==
    LET kept == SelectSeq([j \in 1..Len(pages) |-> j],
                          LAMBDA j : j >= k /\ Strip(PageText(pages[j], ocr_enabled)) # <<>>)
    IN  [n \in 1..Len(kept) |-> PageEntry(n, PageText(pages[kept[n]], ocr_enabled))]

\* the loop of _process_pdf over the pages k..len(doc)
RECURSIVE PdfEntries(_, _, _)
PdfEntries(pages, k, ocr_enabled) ==
    IF k > Len(pages) THEN <<>>
    ELSE LET text == PageText(pages[k], ocr_enabled)
         IN  (IF Strip(text) # <<>> THEN <<PageEntry(k, text)>> ELSE <<>>)
             \o PdfEntries(pages, k + 1, ocr_enabled)

\* a loop that hands every page to the OCR when OCR is enabled
OcrPagesOfEveryPage(pages, ocr_enabled) ==
    SelectSeq([j \in 1..Len(pages) |-> j], LAMBDA j : ocr_enabled)

\* the pages the loop hands to self._ocr_image, in the order of the calls
\* (document_processor.py:103-110)
OcrPages(pages, ocr_enabled) ==
    SelectSeq([j \in 1..Len(pages) |-> j],
              LAMBDA j : PageUsesOcr(pages[j], ocr_enabled))

\* _process_pdf (document_processor.py:86-122); fitz.open raises on a file that
\* was written from an exhausted stream
process_pdf(f, ocr_enabled) ==
    IF f.fault = "write" THEN WriteFailed(f)
    ELSE IF ~ReadsWhole(f) \/ f.fmt # "pdf"
    THEN Unlinked(Extracted(<<>>, AfterRead(f), "FileDataError", 0))
    ELSE IF f.fault = "extract"
    THEN \* doc.load_page or page.get_text raised on the first page
         Unlinked(Extracted(<<>>, AfterRead(f), "RuntimeError", 0))
    ELSE LET called == OcrPages(f.pages, ocr_enabled)
         IN  Unlinked(
               [Extracted(JoinParagraphs(PdfEntries(f.pages, 1, ocr_enabled)),
                          AfterRead(f), "", Len(called))
                   EXCEPT !.ocr_pages = called])

\* " | ".join(row_text) over the non-blank cells of a row, each stripped
RECURSIVE JoinCells(_)
JoinCells(cells) ==
    IF cells = <<>> THEN <<>>
    ELSE IF Len(cells) = 1 THEN cells[1]
    ELSE cells[1] \o <<SP, "|", SP>> \o JoinCells(Tail(cells))

RECURSIVE NonBlank(_)
NonBlank(texts) ==
    IF texts = <<>> THEN <<>>
    ELSE (IF Strip(texts[1]) # <<>> THEN <<texts[1]>> ELSE <<>>) \o NonBlank(Tail(texts))

RowText(row) == JoinCells([k \in 1..Len(NonBlank(row)) |-> Strip(NonBlank(row)[k])])

RECURSIVE RowTexts(_)
RowTexts(rows) ==
    IF rows = <<>> THEN <<>>
    ELSE (IF NonBlank(rows[1]) # <<>> THEN <<RowText(rows[1])>> ELSE <<>>)
         \o RowTexts(Tail(rows))

RECURSIVE TableTexts(_)
TableTexts(tables) ==
    IF tables = <<>> THEN <<>>
    ELSE RowTexts(tables[1]) \o TableTexts(Tail(tables))

\* doc.paragraphs: the text of the paragraphs of the body, in document order
DocParagraphs(body) ==
    LET ps == SelectSeq(body, LAMBDA e : e.kind = "p")
    IN  [k \in 1..Len(ps) |-> ps[k].text]

\* doc.tables: the tables of the body, in document order, each a list of rows
DocTables(body) ==
    LET ts == SelectSeq(body, LAMBDA e : e.kind = "t")
    IN  [k \in 1..Len(ts) |-> ts[k].rows]

\* text_content as _process_docx builds it: every non-blank paragraph of
\* doc.paragraphs, then every row of doc.tables (document_processor.py:143-157)
DocxEntries(body) == NonBlank(DocParagraphs(body)) \o TableTexts(DocTables(body))

\* _process_docx (document_processor.py:135-162)
process_docx(f, ocr_enabled) ==
    IF f.fault = "write" THEN WriteFailed(f)
    ELSE IF ~ReadsWhole(f) \/ f.fmt # "docx"
    THEN Unlinked(Extracted(<<>>, AfterRead(f), "PackageNotFoundError", 0))
    ELSE IF f.fault = "extract"
    THEN \* reading doc.paragraphs or a table raised
         Unlinked(Extracted(<<>>, AfterRead(f), "RuntimeError", 0))
    ELSE Unlinked(Extracted(JoinParagraphs(DocxEntries(f.body)),
                            AfterRead(f), "", 0))

\* an image extractor that runs the OCR whatever the flag says
process_image_ignoring_flag(f, ocr_enabled) ==
    IF f.fmt # "image" THEN Extracted(<<>>, AfterRead(f), "UnidentifiedImageError", 0)
    ELSE Extracted(ocr_image(f.ocr), AfterRead(f), "", 1)

\* _process_image (document_processor.py:164-170); Image.open rewinds the stream
\* itself before it reads
process_image(f, ocr_enabled) ==
    IF ~ocr_enabled THEN Extracted(<<>>, f, "", 0)
    ELSE IF f.fmt # "image" THEN Extracted(<<>>, AfterRead(f), "UnidentifiedImageError", 0)
    ELSE Extracted(ocr_image(f.ocr), AfterRead(f), "", 1)

\* self.supported_formats (document_processor.py:24-31)
supported_formats ==
    { <<"p", "d", "f">>, <<"t", "x", "t">>, <<"d", "o", "c", "x">>,
      <<"p", "n", "g">>, <<"j", "p", "g">>, <<"j", "p", "e", "g">> }

\* processor = self.supported_formats[file_extension]; processor(uploaded_file, ocr_enabled)
RunProcessor(ext, f, ocr_enabled) ==
    CASE ext = <<"p", "d", "f">> -> process_pdf(f, ocr_enabled)
      [] ext = <<"t", "x", "t">> -> process_txt(f, ocr_enabled)
      [] ext = <<"d", "o", "c", "x">> -> process_docx(f, ocr_enabled)
      [] OTHER -> process_image(f, ocr_enabled)

\* the extension taken as it is written in the name
file_extension_as_written(f) == LastDotPart(f.name)

\* file_extension = uploaded_file.name.split('.')[-1].lower()
file_extension(f) == Lower(LastDotPart(f.name))

\* a Document numbered from 1
MakeDocumentOneBased(chunk, f, ext, i, n, ocr_enabled) ==
    [page_content |-> chunk,
     metadata |-> [filename |-> f.name, file_type |-> ext, chunk_id |-> i + 1,
                   total_chunks |-> n, ocr_enabled |-> ocr_enabled]]

\* Document(page_content=chunk, metadata={...}) for chunk i (0-based) of n
MakeDocument(chunk, f, ext, i, n, ocr_enabled) ==
    [page_content |-> chunk,
     metadata |-> [filename |-> f.name, file_type |-> ext, chunk_id |-> i,
                   total_chunks |-> n, ocr_enabled |-> ocr_enabled]]

\* the documents built from the chunks (document_processor.py:65-77)
MakeDocuments(chunks, f, ext, ocr_enabled) ==
    [k \in 1..Len(chunks) |-> MakeDocument(chunks[k], f, ext, k - 1, Len(chunks), ocr_enabled)]

\* how a call of process_file ends: it returned documents, or it raised exc with
\* message msg; logged says whether its except clause logged the error; split is
\* the list of texts it handed to split_text
Returned(docs, text) ==
    [status |-> "returned", exc |-> "", msg |-> "", logged |-> FALSE,
     documents |-> docs, split |-> <<text>>]

Raised(exc, msg, logged) ==
    [status |-> "raised", exc |-> exc, msg |-> msg, logged |-> logged,
     documents |-> <<>>, split |-> <<>>]

MsgUnsupported == "Unsupported file format"
MsgNoContent == "No text content extracted from file"
MsgOverlap == "Got a larger chunk overlap than chunk size"

\* a check that lets every extension through
IsSupportedNoCheck(ext) == TRUE

\* the unsupported-format check of process_file (document_processor.py:42)
IsSupported(ext) == ext \in supported_formats

\* a no-content check that forgets strip()
IsBlankNoStrip(text) == text = <<>>

\* the no-content check of process_file (document_processor.py:50)
IsBlank(text) == Strip(text) = <<>>

\* a get_file_info that puts the stream back where it found it
get_file_info_rewinding(f) ==
    [info |-> [name |-> f.name, size |-> Size(f) - f.pos, type |-> f.fmt], file |-> f]

\* get_file_info (document_processor.py:211-217): the dict it returns (the size
\* is the length of what read() returns) and the file object as it leaves it
get_file_info(f) ==
    [info |-> [name |-> f.name, size |-> Size(f) - f.pos, type |-> f.fmt],
     file |-> AfterRead(f)]

\* process_file (document_processor.py:36-84): the outcome of the call and the
\* file object as the call leaves it
process_file(f, ocr_enabled, chunk_size, chunk_overlap) ==
    LET ext == file_extension(f)
    IN  IF ~IsSupported(ext)
        THEN [outcome |-> Raised("ValueError", MsgUnsupported, FALSE), file |-> f,
              ocr_runs |-> 0, ocr_pages |-> <<>>, tmp_created |-> 0, tmp_left |-> 0,
              extracted |-> [ran |-> FALSE, text |-> <<>>, exc |-> ""]]
        ELSE LET x == RunProcessor(ext, f, ocr_enabled)
                 outcome ==
                    IF x.exc # "" THEN Raised(x.exc, "", TRUE)
                    ELSE IF IsBlank(x.text) THEN Raised("ValueError", MsgNoContent, TRUE)
                    ELSE IF chunk_overlap > chunk_size
                         THEN \* the splitter's constructor refuses the pair
                              Raised("ValueError", MsgOverlap, TRUE)
                    ELSE Returned(MakeDocuments(split_text(x.text, chunk_size, chunk_overlap),
                                                f, ext, ocr_enabled),
                                  x.text)
             IN  [outcome |-> outcome, file |-> x.file, ocr_runs |-> x.ocr_runs,
                  ocr_pages |-> x.ocr_pages,
                  tmp_created |-> x.tmp_created, tmp_left |-> x.tmp_left,
                  extracted |-> [ran |-> TRUE, text |-> x.text, exc |-> x.exc]]


\* what the model keeps of one call of process_file: its outcome, the file object
\* it was handed (arg), the number of OCR engine runs it made, the temporary
\* files it created and left, and what its extractor handed back (text_content)
CallRecord(f, r) ==
    [arg |-> f, ocr_runs |-> r.ocr_runs, ocr_pages |-> r.ocr_pages,
     tmp_created |-> r.tmp_created,
     tmp_left |-> r.tmp_left, extracted |-> r.extracted] @@ r.outcome

-----------------------------------------------------------------------------
(* The inputs of the model *)

NoOcr == [fault |-> "none", text |-> <<>>]

TextFile(name, bytes) ==
    [name |-> name, fmt |-> "text", bytes |-> bytes, pages |-> <<>>,
     body |-> <<>>, ocr |-> NoOcr, pos |-> 0, fault |-> "none"]

PdfFile(name, pages) ==
    [name |-> name, fmt |-> "pdf", bytes |-> <<>>, pages |-> pages,
     body |-> <<>>, ocr |-> NoOcr, pos |-> 0, fault |-> "none"]

\* the block-level elements of a DOCX body, in document order
Paragraph(text) == [kind |-> "p", text |-> text, rows |-> <<>>]
Table(rows) == [kind |-> "t", text |-> <<>>, rows |-> rows]

DocxFile(name, body) ==
    [name |-> name, fmt |-> "docx", bytes |-> <<>>, pages |-> <<>>,
     body |-> body, ocr |-> NoOcr, pos |-> 0, fault |-> "none"]

ImageFile(name, ocr) ==
    [name |-> name, fmt |-> "image", bytes |-> <<>>, pages |-> <<>>,
     body |-> <<>>, ocr |-> ocr, pos |-> 0, fault |-> "none"]

\* the upload f extracted in an environment that fails at the given step
WithFault(f, fault) == [f EXCEPT !.fault = fault]

Config(ocr_enabled, chunk_size, chunk_overlap) ==
    [ocr_enabled |-> ocr_enabled, chunk_size |-> chunk_size,
     chunk_overlap |-> chunk_overlap]

\* every byte string over AsciiBytes of length at most n
RECURSIVE ByteStrings(_)
ByteStrings(n) ==
    IF n = 0 THEN {<<>>}
    ELSE LET shorter == ByteStrings(n - 1)
         IN  shorter \cup {Append(bs, b) : bs \in shorter, b \in AsciiBytes}

NameATxt == <<"a", ".", "t", "x", "t">>
NameBTXT == <<"b", ".", "T", "X", "T">>
NameCXyz == <<"c", ".", "x", "y", "z">>
NameReadme == <<"R", "E", "A", "D", "M", "E">>
NameDotted == <<"c", ".", "x", "y", "z", ".", "t", "x", "t">>
NameEmpty == <<"e", ".", "t", "x", "t">>
NameLatin == <<"l", ".", "t", "x", "t">>
NameHello == <<"h", ".", "t", "x", "t">>
NamePdf == <<"p", ".", "p", "d", "f">>
NamePDF == <<"q", ".", "P", "D", "F">>
NamePng == <<"i", ".", "p", "n", "g">>
NameJPG == <<"j", ".", "J", "P", "G">>
NameJpeg == <<"k", ".", "j", "p", "e", "g">>
NameDocx == <<"w", ".", "d", "o", "c", "x">>

\* the 13 bytes of "Hello world. "
HelloBytes == <<72, 101, 108, 108, 111, 32, 119, 111, 114, 108, 100, 46, 32>>

\* "Hello world. " * 100: 1300 bytes
ScenarioBytes == [k \in 1..(100 * Len(HelloBytes)) |-> HelloBytes[((k - 1) % Len(HelloBytes)) + 1]]

ScenarioFile == TextFile(NameHello, ScenarioBytes)
ScenarioConfig == Config(TRUE, 500, 100)

Page(native, fault, text) == [native |-> native, ocr |-> [fault |-> fault, text |-> text]]

\* files of other kinds and names, with fixed contents
CatalogFiles ==
    { TextFile(NameBTXT, <<97, 98, 32, 97, 98>>),
      TextFile(NameCXyz, <<97, 98>>),
      TextFile(NameReadme, <<97, 98>>),
      TextFile(NameDotted, <<97, 32, 98>>),
      TextFile(NameLatin, <<97, 255, 32, 98>>),
      PdfFile(NamePdf, << Page(<<"a", SP, "b">>, "none", <<>>),
                          Page(<<>>, "none", <<"b", NL>>),
                          Page(<<SP>>, "recognize", <<>>) >>),
      PdfFile(NamePDF, << Page(<<NL>>, "none", <<"a">>) >>),
      ImageFile(NamePng, [fault |-> "none", text |-> <<"a", SP, "b", NL>>]),
      ImageFile(NameJPG, [fault |-> "recognize", text |-> <<>>]),
      ImageFile(NameJpeg, [fault |-> "none", text |-> <<SP>>]),
      DocxFile(NameDocx, << Paragraph(<<"a">>), Paragraph(<<SP>>),
                            Paragraph(<<"b", SP, "a">>),
                            Table(<< << <<"a">>, <<>>, <<SP, "b">> >>,
                                     << <<>>, <<SP>> >> >>) >>) }

\* the pages a PDF is made of: a native text layer, a page without one that the
\* engine reads (with trailing whitespace), a blank layer on which the engine
\* fails, a blank layer on which the engine reads only whitespace, and a page
\* without one whose raster makes the preprocessing raise
PageKinds ==
    { Page(<<"a">>, "none", <<>>),
      Page(<<>>, "none", <<"b", NL>>),
      Page(<<SP>>, "recognize", <<>>),
      Page(<<NL>>, "none", <<SP>>),
      Page(<<>>, "preprocess", <<"a">>) }

\* every sequence of at most n elements of the set kinds
RECURSIVE SeqsUpTo(_, _)
SeqsUpTo(kinds, n) ==
    IF n = 0 THEN {<<>>}
    ELSE LET shorter == SeqsUpTo(kinds, n - 1)
         IN  shorter \cup {Append(q, e) : q \in shorter, e \in kinds}

\* the elements a DOCX body is made of: two paragraphs, a blank paragraph, a
\* table of one row with a blank cell and a padded cell, a table of two rows of
\* which the first is all blank
BodyKinds ==
    { Paragraph(<<"a">>),
      Paragraph(<<"b", SP, "a">>),
      Paragraph(<<SP>>),
      Table(<< << <<"a">>, <<>>, <<SP, "b">> >> >>),
      Table(<< << <<>>, <<SP>> >>, << <<"b">> >> >>) }

\* what the engine reads on the enumerated images
ImageTexts == { <<>>, <<SP>>, <<"a", SP, "b", NL>> }

\* the settings the enumerated documents are processed with
DocumentConfig(ocr) == Config(ocr, MaxChunkSize, 1)

\* PDF files of every page sequence, DOCX files of every body, text files of
\* every byte content over RawBytes, images of every engine behaviour, and a
\* PDF and a DOCX extracted while the environment fails
DocumentFiles ==
    { PdfFile(NamePdf, pages) : pages \in SeqsUpTo(PageKinds, MaxPages) \ {<<>>} }
    \cup { DocxFile(NameDocx, body) : body \in SeqsUpTo(BodyKinds, MaxBody) \ {<<>>} }
    \cup { TextFile(NameLatin, bs) : bs \in SeqsUpTo(RawBytes, MaxRawLen) }
    \cup { ImageFile(name, [fault |-> fault, text |-> text]) :
              name \in {NamePng, NameJPG, NameJpeg}, fault \in OcrFaults,
              text \in ImageTexts }
    \cup { WithFault(f, fault) :
              f \in { PdfFile(NamePdf, << Page(<<"a">>, "none", <<>>) >>),
                      DocxFile(NameDocx, << Paragraph(<<"a">>) >>) },
              fault \in {"write", "extract"} }

\* the inputs of process_file besides the "Hello world. " scenario: every short
\* plain-text file with every (chunk_size, chunk_overlap <= chunk_size), the
\* catalog with every pair and both OCR settings, and the enumerated documents
\* with both OCR settings
FileInputs ==
    { [file |-> TextFile(NameATxt, bs), cfg |-> Config(TRUE, so[1], so[2])] :
        bs \in ByteStrings(MaxTextLen),
        so \in {p \in (1..MaxChunkSize) \X (0..MaxChunkSize) : p[2] <= p[1]} }
    \cup
    { [file |-> f, cfg |-> Config(ocr, S, O)] :
        f \in CatalogFiles, ocr \in BOOLEAN,
        S \in 1..MaxChunkSize, O \in 0..MaxChunkSize }
    \cup
    { [file |-> f, cfg |-> DocumentConfig(ocr)] : f \in DocumentFiles, ocr \in BOOLEAN }

-----------------------------------------------------------------------------
(* VectorStoreManager (app/utils/vector_store.py).  db is
     [exists, documents, last_op]
   exists says that the directory db_path exists, documents is what the
   collection persisted in it holds (the directory is empty when it holds
   nothing), last_op is the last of create_vectorstore and clear_database that
   returned ("init" before any). *)

\* the value None, and the Chroma object opened on a collection of documents
None == [is_none |-> TRUE, documents |-> <<>>]
Chroma(documents) == [is_none |-> FALSE, documents |-> documents]

\* VectorStoreManager.__init__: os.makedirs(db_path, exist_ok=True)
EmptyDb == [exists |-> TRUE, documents |-> <<>>, last_op |-> "init"]

\* load_vectorstore (vector_store.py:41-53): the collection of the directory,
\* None when the directory does not exist or is empty
load_vectorstore(d) ==
    IF d.exists /\ d.documents # <<>> THEN Chroma(d.documents) ELSE None

\* similarity_search(query, k) (vector_store.py:55-60): at most k documents of
\* the collection (the model does not rank them), [] without a collection
similarity_search(d, query, k) ==
    LET vs == load_vectorstore(d)
    IN  IF vs = None THEN <<>>
        ELSE SubSeq(vs.documents, 1, IF k < Len(vs.documents) THEN k ELSE Len(vs.documents))

\* get_document_count (vector_store.py:62-71)
get_document_count(d) ==
    LET vs == load_vectorstore(d)
    IN  IF vs = None THEN 0 ELSE Len(vs.documents)

\* create_vectorstore returned (vector_store.py:24-35): Chroma.from_documents
\* opens the collection of persist_directory and adds the documents to it
Created(d, documents) ==
    [exists |-> TRUE, documents |-> d.documents \o documents, last_op |-> "create"]

\* a clear_database that removes the directory and does not make it again
ClearedWithoutMakedirs(d) ==
    [exists |-> FALSE, documents |-> <<>>, last_op |-> "clear"]

\* clear_database returned (vector_store.py:73-77): shutil.rmtree of the
\* directory, then os.makedirs; nothing is done to a directory that is missing
Cleared(d) ==
    IF d.exists THEN [exists |-> TRUE, documents |-> <<>>, last_op |-> "clear"]
    ELSE [d EXCEPT !.last_op = "clear"]

\* shutil.rmtree raised inside clear_database: the directory is still there,
\* with what rmtree had not removed yet (all of it, or nothing)
ClearRaised(d, removed) ==
    [d EXCEPT !.documents = IF removed THEN <<>> ELSE @]

\* [f.name for f in uploaded_files] given back to front
FileNamesReversed(files) == [k \in 1..Len(files) |-> files[Len(files) + 1 - k].name]

\* [f.name for f in uploaded_files] (app.py:388)
FileNames(files) == [k \in 1..Len(files) |-> files[k].name]

\* render_main_content (app.py:275-286) shows the chat only with a model
\* selected and a vector store in the session
ChatReachable == current_model # "None" /\ vectorstore # None

-----------------------------------------------------------------------------
(* SpecFile: process_file called, repeatedly, on one uploaded file object *)

InitFile ==
    /\ \/ /\ uploaded_files = <<ScenarioFile>>
          /\ cfg = ScenarioConfig
       \/ \E input \in FileInputs :
            /\ uploaded_files = <<input.file>>
            /\ cfg = input.cfg
    /\ pc = "caller"
    /\ idx = 0
    /\ all_documents = <<>>
    /\ progress = <<>>
    /\ vectorstore = None
    /\ processed_docs = <<>>
    /\ outcomes = <<>>
    /\ split_calls = <<>>
    /\ index_calls = <<>>
    /\ st_errors = <<>>
    /\ runs = 0
    /\ tmp_dir = 0
    /\ ocr_call = [op |-> "none"]
    /\ db = EmptyDb
    /\ current_model = "None"
    /\ file_infos = <<>>

\* documents = document_processor.process_file(file, ocr_enabled, chunk_size, chunk_overlap)
CallProcessFile ==
    /\ pc = "caller"
    /\ Len(outcomes) < MaxCalls
    /\ LET r == process_file(uploaded_files[1], cfg.ocr_enabled, cfg.chunk_size,
                             cfg.chunk_overlap)
       IN  /\ uploaded_files' = <<r.file>>
           /\ outcomes' = Append(outcomes, CallRecord(uploaded_files[1], r))
           /\ split_calls' = split_calls \o r.outcome.split
           /\ tmp_dir' = tmp_dir + r.tmp_left
    /\ UNCHANGED <<cfg, pc, idx, all_documents, progress, vectorstore, processed_docs,
                   index_calls, st_errors, runs, ocr_call, db, current_model, file_infos>>

NextFile == CallProcessFile

SpecFile == InitFile /\ [][NextFile]_vars

-----------------------------------------------------------------------------
(* SpecInfo: get_file_info and process_file called on one uploaded file object *)

\* the uploads of SpecInfo: the catalog and the enumerated documents, with both
\* OCR settings
InfoInputs ==
    { [file |-> f, cfg |-> DocumentConfig(ocr)] :
        f \in CatalogFiles \cup DocumentFiles, ocr \in BOOLEAN }

InitInfo ==
    /\ \E input \in InfoInputs :
            /\ uploaded_files = <<input.file>>
            /\ cfg = input.cfg
    /\ pc = "caller"
    /\ idx = 0
    /\ all_documents = <<>>
    /\ progress = <<>>
    /\ vectorstore = None
    /\ processed_docs = <<>>
    /\ outcomes = <<>>
    /\ split_calls = <<>>
    /\ index_calls = <<>>
    /\ st_errors = <<>>
    /\ runs = 0
    /\ tmp_dir = 0
    /\ ocr_call = [op |-> "none"]
    /\ db = EmptyDb
    /\ current_model = "None"
    /\ file_infos = <<>>

\* info = document_processor.get_file_info(file), before the file is processed
CallGetFileInfo ==
    /\ pc = "caller"
    /\ outcomes = <<>>
    /\ file_infos = <<>>
    /\ LET r == get_file_info(uploaded_files[1])
       IN  /\ uploaded_files' = <<r.file>>
           /\ file_infos' = Append(file_infos, [arg |-> uploaded_files[1], info |-> r.info])
    /\ UNCHANGED <<cfg, pc, idx, all_documents, progress, vectorstore, processed_docs,
                   outcomes, split_calls, index_calls, st_errors, runs, tmp_dir,
                   ocr_call, db, current_model>>

NextInfo == CallGetFileInfo \/ CallProcessFile

SpecInfo == InitInfo /\ [][NextInfo]_vars


-----------------------------------------------------------------------------
(* Spec: the session of RAGSystemApp, "Process Documents" pressed on a batch *)

\* the files a batch is made of
BatchFiles ==
    { TextFile(NameATxt, <<97, 32, 98, 32, 97>>),
      TextFile(NameBTXT, <<98, 97>>),
      TextFile(NameCXyz, <<97, 98>>),
      TextFile(NameEmpty, <<>>),
      PdfFile(NamePdf, << Page(<<>>, "none", <<"b">>) >>) }

RECURSIVE Batches(_)
Batches(n) ==
    IF n = 0 THEN {<<>>}
    ELSE LET shorter == Batches(n - 1)
         IN  shorter \cup {Append(b, f) : b \in shorter, f \in BatchFiles}

\* the settings of a batch: both OCR settings, the largest chunk size and an
\* overlap of one character
BatchConfigs == {Config(ocr, MaxChunkSize, 1) : ocr \in BOOLEAN}

\* setup_session_state (app.py:87-95)
Init ==
    /\ uploaded_files = <<>>
    /\ cfg = Config(TRUE, MaxChunkSize, 1)
    /\ pc = "idle"
    /\ idx = 0
    /\ all_documents = <<>>
    /\ progress = <<>>
    /\ vectorstore = None
    /\ processed_docs = <<>>
    /\ outcomes = <<>>
    /\ split_calls = <<>>
    /\ index_calls = <<>>
    /\ st_errors = <<>>
    /\ runs = 0
    /\ tmp_dir = 0
    /\ ocr_call = [op |-> "none"]
    /\ db = EmptyDb
    /\ current_model = "None"
    /\ file_infos = <<>>

\* the button of render_document_management (app.py:206-215) and the head of
\* process_documents (app.py:364-368): a non-empty batch and its settings
StartBatchOf(batches, configs, max_runs) ==
    /\ pc = "idle"
    /\ runs < max_runs
    /\ \E batch \in batches, c \in configs :
        /\ uploaded_files' = batch
        /\ cfg' = c
    /\ pc' = "loop"
    /\ idx' = 0
    /\ all_documents' = <<>>
    /\ progress' = << <<0, 1>> >>
    /\ outcomes' = <<>>
    /\ split_calls' = <<>>
    /\ index_calls' = <<>>
    /\ st_errors' = <<>>
    /\ runs' = runs + 1
    /\ UNCHANGED <<vectorstore, processed_docs, tmp_dir, ocr_call, db, current_model, file_infos>>

StartBatch == StartBatchOf(Batches(MaxBatch) \ {<<>>}, BatchConfigs, MaxRuns)

\* an aggregation that puts the chunks of the new file first
ExtendAtFront(documents_so_far, documents) == documents \o documents_so_far

\* all_documents.extend(documents) (app.py:379)
Extend(documents_so_far, documents) == documents_so_far \o documents

\* one pass of the loop of process_documents (app.py:369-380); an exception of
\* process_file leaves the loop for the except clause (app.py:397-399)
ProcessNextFile ==
    /\ pc = "loop"
    /\ idx < Len(uploaded_files)
    /\ LET r == process_file(uploaded_files[idx + 1], cfg.ocr_enabled, cfg.chunk_size,
                             cfg.chunk_overlap)
       IN  /\ uploaded_files' = [uploaded_files EXCEPT ![idx + 1] = r.file]
           /\ outcomes' = Append(outcomes, CallRecord(uploaded_files[idx + 1], r))
           /\ split_calls' = split_calls \o r.outcome.split
           /\ tmp_dir' = tmp_dir + r.tmp_left
           /\ IF r.outcome.status = "returned"
              THEN /\ all_documents' = Extend(all_documents, r.outcome.documents)
                   /\ progress' = Append(progress, <<idx + 1, Len(uploaded_files)>>)
                   /\ idx' = idx + 1
                   /\ pc' = IF idx + 1 = Len(uploaded_files) THEN "index" ELSE "loop"
                   /\ UNCHANGED st_errors
              ELSE /\ st_errors' = Append(st_errors, r.outcome.msg)
                   /\ pc' = "failed"
                   /\ UNCHANGED <<all_documents, progress, idx>>
    /\ UNCHANGED <<cfg, vectorstore, processed_docs, index_calls, runs, ocr_call, db, current_model, file_infos>>

\* the end of process_documents (app.py:382-395): create_vectorstore
\* (vector_store.py:24-39) returns the index or raises what the embedding
\* library raises
CreateIndex ==
    /\ pc = "index"
    /\ index_calls' = Append(index_calls, all_documents)
    /\ \E created \in BOOLEAN :
        IF created
        THEN /\ db' = Created(db, all_documents)
             /\ vectorstore' = Chroma(db'.documents)
             /\ processed_docs' = processed_docs \o FileNames(uploaded_files)
             /\ progress' = Append(progress, <<1, 1>>)
             /\ pc' = "done"
             /\ UNCHANGED st_errors
        ELSE /\ st_errors' = Append(st_errors, "create_vectorstore")
             /\ pc' = "failed"
             /\ UNCHANGED <<vectorstore, processed_docs, progress, db>>
    /\ UNCHANGED <<uploaded_files, cfg, idx, all_documents, outcomes, split_calls, runs,
                   tmp_dir, ocr_call, current_model, file_infos>>

\* st.rerun() after a run or a clearing, or the next script run after a failed
\* one: the locals of the handler are gone, the widgets are drawn again and
\* only the session state, the disk and the run counter are kept
Rerun ==
    /\ pc \in {"done", "failed", "cleared", "clear_failed"}
    /\ pc' = "idle"
    /\ uploaded_files' = <<>>
    /\ cfg' = Config(TRUE, MaxChunkSize, 1)
    /\ idx' = 0
    /\ all_documents' = <<>>
    /\ progress' = <<>>
    /\ outcomes' = <<>>
    /\ split_calls' = <<>>
    /\ index_calls' = <<>>
    /\ st_errors' = <<>>
    /\ UNCHANGED <<vectorstore, processed_docs, runs, tmp_dir, ocr_call, db, current_model, file_infos>>

Next == StartBatch \/ ProcessNextFile \/ CreateIndex \/ Rerun

Spec == Init /\ [][Next]_vars

-----------------------------------------------------------------------------
(* SpecSession: a session in which documents are processed, a model is
   selected and the database is cleared *)

\* the files of the batches of such a session: two that process_file accepts
\* and one it refuses
SessionFiles ==
    { TextFile(NameATxt, <<97, 32, 98, 32, 97>>),
      TextFile(NameBTXT, <<98, 97>>),
      TextFile(NameCXyz, <<97, 98>>) }

SessionBatches == SeqsUpTo(SessionFiles, MaxSessionBatch) \ {<<>>}

StartSessionBatch ==
    StartBatchOf(SessionBatches, {Config(TRUE, MaxChunkSize, 1)}, MaxSessionRuns)

\* render_model_management (app.py:154-168): the selectbox of the available
\* models sets the current model
SelectModel ==
    /\ pc = "idle"
    /\ current_model = "None"
    /\ current_model' = "llama2"
    /\ UNCHANGED <<uploaded_files, cfg, pc, idx, all_documents, progress, vectorstore,
                   processed_docs, outcomes, split_calls, index_calls, st_errors, runs,
                   tmp_dir, ocr_call, db, file_infos>>

\* the "Clear DB" button (app.py:218-232), shown while the session has a vector
\* store, and clear_vector_database (app.py:449-459): clear_database returns and
\* the session is emptied, or it raises and st.error shows the exception
ClearVectorDatabase ==
    /\ pc = "idle"
    /\ vectorstore # None
    /\ \E raised \in BOOLEAN, removed \in BOOLEAN :
        IF ~raised
        THEN /\ db' = Cleared(db)
             /\ vectorstore' = None
             /\ processed_docs' = <<>>
             /\ pc' = "cleared"
             /\ UNCHANGED st_errors
        ELSE /\ db' = ClearRaised(db, removed)
             /\ st_errors' = Append(st_errors, "clear_database")
             /\ pc' = "clear_failed"
             /\ UNCHANGED <<vectorstore, processed_docs>>
    /\ UNCHANGED <<uploaded_files, cfg, idx, all_documents, progress, outcomes,
                   split_calls, index_calls, runs, tmp_dir, ocr_call, current_model, file_infos>>

NextSession ==
    \/ StartSessionBatch
    \/ ProcessNextFile
    \/ CreateIndex
    \/ Rerun
    \/ SelectModel
    \/ ClearVectorDatabase

SpecSession == Init /\ [][NextSession]_vars


-----------------------------------------------------------------------------
(* SpecControls: the processing options of render_document_management
   (app.py:209-215) as the user can set them before "Process Documents" *)

\* st.slider("Chunk Size", 500, 2000, 1000)
ChunkSizeMin == 500
ChunkSizeMax == 2000
ChunkSizeDefault == 1000

\* st.slider("Chunk Overlap", 50, 500, 200)
ChunkOverlapMin == 50
ChunkOverlapMax == 500
ChunkOverlapDefault == 200

\* a slider that lets its value go one step beyond max_value
SliderValuesBeyondMax(min_value, max_value) == min_value..(max_value + 1)

\* the values an integer st.slider(label, min_value, max_value, value) can
\* return: every integer of min_value..max_value (the step is 1)
SliderValues(min_value, max_value) == min_value..max_value

\* the file the options are submitted with
ControlsBatch == << TextFile(NameATxt, <<97, 32, 98, 32, 97>>) >>

\* the script run in which the files are selected and the options stand at
\* their defaults: value=True, 1000, 200
InitControls ==
    /\ uploaded_files = ControlsBatch
    /\ cfg = Config(TRUE, ChunkSizeDefault, ChunkOverlapDefault)
    /\ pc = "controls"
    /\ idx = 0
    /\ all_documents = <<>>
    /\ progress = <<>>
    /\ vectorstore = None
    /\ processed_docs = <<>>
    /\ outcomes = <<>>
    /\ split_calls = <<>>
    /\ index_calls = <<>>
    /\ st_errors = <<>>
    /\ runs = 0
    /\ tmp_dir = 0
    /\ ocr_call = [op |-> "none"]
    /\ db = EmptyDb
    /\ current_model = "None"
    /\ file_infos = <<>>

\* the user sets the checkbox and the two sliders and presses "Process
\* Documents": process_documents is called with the three values
\* (app.py:210-215) and starts its loop (app.py:364-368)
SubmitControls ==
    /\ pc = "controls"
    /\ \E ocr_enabled \in BOOLEAN,
          chunk_size \in SliderValues(ChunkSizeMin, ChunkSizeMax),
          chunk_overlap \in SliderValues(ChunkOverlapMin, ChunkOverlapMax) :
        cfg' = Config(ocr_enabled, chunk_size, chunk_overlap)
    /\ pc' = "loop"
    /\ progress' = << <<0, 1>> >>
    /\ runs' = runs + 1
    /\ UNCHANGED <<uploaded_files, idx, all_documents, vectorstore, processed_docs,
                   outcomes, split_calls, index_calls, st_errors, tmp_dir, ocr_call, db, current_model, file_infos>>

NextControls == SubmitControls

SpecControls == InitControls /\ [][NextControls]_vars

-----------------------------------------------------------------------------
(* OCRProcessor (app/utils/ocr_processor.py).  An image array is
     [h, w, channels, binary, ops, fails_at, words, lines, tilt2]
   h and w are its height and width, channels is 1 for a 2-D array and 3 for a
   3-D one, binary says that every pixel is 0 or 255, ops is the list of the
   operations applied to it so far.  fails_at names the library call that raises
   on this image ("none" when every call succeeds) and words is what
   pytesseract.image_to_data reads on it: a list of [conf, text].  lines is what
   cv2.HoughLines finds on its edges: the angle theta of the normal of every
   line, in whole degrees of 0..179, or HoughNone.  tilt2 is twice the angle, in
   degrees, by which its content has been turned clockwise on the screen since
   it was loaded (twice, because a median of two angles may end in .5). *)

\* every library call the OCR code makes on an image, in the names of the source
LibraryCalls ==
    { "np.array", "COLOR_RGB2BGR", "COLOR_BGR2GRAY", "medianBlur", "createCLAHE",
      "threshold", "deskew", "morphologyEx", "adaptiveThreshold", "remove_shadows",
      "filter2D", "resize", "fastNlMeansDenoising", "bilateralFilter",
      "Image.fromarray", "image_to_data" }

\* the operations after which every pixel is 0 or 255
Binarizations == {"threshold", "adaptiveThreshold"}

\* cv2.HoughLines returned None: no line reached the threshold of 100 votes
HoughNone == [found |-> FALSE, thetas |-> <<>>]

\* cv2.HoughLines returned the lines of these angles (never an empty array)
HoughLines(thetas) == [found |-> TRUE, thetas |-> thetas]

Abs(x) == IF x < 0 THEN -x ELSE x

\* angle = theta * 180 / np.pi - 90 (ocr_processor.py:158): the angle of the line
\* itself.  The y axis of an image points down, so a line of positive angle
\* falls to the right: it is a horizontal line turned clockwise on the screen
LineAngle(theta) == theta - 90

\* a deskew that takes every detected angle
AcceptsAnyAngle(angle) == TRUE

\* if abs(angle) < 45 (ocr_processor.py:159)
AcceptsAngle(angle) == Abs(angle) < 45

\* the list `angles` after the loop over the lines (ocr_processor.py:155-160)
AcceptedAngles(thetas) ==
    SelectSeq([k \in 1..Len(thetas) |-> LineAngle(thetas[k])], AcceptsAngle)

\* the k-th smallest value of a non-empty list
KthSmallest(q, k) ==
    CHOOSE v \in {q[i] : i \in 1..Len(q)} :
        /\ Cardinality({i \in 1..Len(q) : q[i] < v}) < k
        /\ Cardinality({i \in 1..Len(q) : q[i] <= v}) >= k

\* twice np.median(angles): the middle value, or the mean of the two middle ones
Median2(q) ==
    IF Len(q) % 2 = 1 THEN 2 * KthSmallest(q, (Len(q) + 1) \div 2)
    ELSE KthSmallest(q, Len(q) \div 2) + KthSmallest(q, Len(q) \div 2 + 1)

\* cv2.warpAffine(image, cv2.getRotationMatrix2D(center, angle, 1.0), (w, h),
\* flags=INTER_CUBIC, borderMode=BORDER_REPLICATE): a positive angle of
\* getRotationMatrix2D turns the image counter-clockwise, the output has the
\* size (w, h) it is given, and cubic interpolation leaves values between 0 and 255
WarpAffine(image, angle2) ==
    [image EXCEPT !.tilt2 = @ - angle2, !.binary = FALSE]

\* _deskew_image (ocr_processor.py:147-174)
deskew_image(image) ==
    IF ~image.lines.found THEN image
    ELSE IF AcceptedAngles(image.lines.thetas) = <<>> THEN image
    ELSE WarpAffine(image, Median2(AcceptedAngles(image.lines.thetas)))

\* one operation applied to an array: resize doubles both sides (fx=2, fy=2), a
\* binarization leaves only 0 and 255, the deskew is _deskew_image, any other
\* operation may leave other values
ApplyOp(img, op) ==
    IF op = "deskew" THEN [deskew_image(img) EXCEPT !.ops = Append(@, op)] ELSE
    [img EXCEPT !.ops = Append(@, op),
                !.h = IF op = "resize" THEN 2 * @ ELSE @,
                !.w = IF op = "resize" THEN 2 * @ ELSE @,
                !.channels = IF op \in {"COLOR_BGR2GRAY", "copy"} THEN 1 ELSE @,
                !.binary = IF op \in Binarizations THEN TRUE
                           ELSE IF op \in {"copy", "correct_perspective"} THEN @
                           ELSE FALSE]

RECURSIVE ApplyOps(_, _)
ApplyOps(img, ops) ==
    IF ops = <<>> THEN img ELSE ApplyOps(ApplyOp(img, Head(ops)), Tail(ops))

\* whether one of the operations raises on the image
Raises(img, ops) == \E k \in 1..Len(ops) : ops[k] = img.fails_at

\* _preprocess_default (ocr_processor.py:60-72)
preprocess_default == <<"medianBlur", "createCLAHE", "threshold">>

\* _preprocess_scanned_document (ocr_processor.py:74-88)
preprocess_scanned_document == <<"deskew", "morphologyEx", "medianBlur", "adaptiveThreshold">>

\* a photo profile that sharpens after it has binarized
preprocess_photo_document_sharpened_last ==
    <<"correct_perspective", "remove_shadows", "createCLAHE", "threshold", "filter2D">>

\* _preprocess_photo_document (ocr_processor.py:90-109)
preprocess_photo_document ==
    <<"correct_perspective", "remove_shadows", "createCLAHE", "filter2D", "threshold">>

\* _preprocess_low_quality (ocr_processor.py:111-130)
preprocess_low_quality ==
    <<"resize", "fastNlMeansDenoising", "filter2D", "createCLAHE", "threshold">>

\* _preprocess_handwritten (ocr_processor.py:132-145)
preprocess_handwritten == <<"bilateralFilter", "morphologyEx", "adaptiveThreshold">>

\* the if/elif chain of preprocess_image (ocr_processor.py:45-54)
ProfileOps(preprocessing_type) ==
    CASE preprocessing_type = "scanned_document" -> preprocess_scanned_document
      [] preprocessing_type = "photo_document" -> preprocess_photo_document
      [] preprocessing_type = "low_quality" -> preprocess_low_quality
      [] preprocessing_type = "handwritten" -> preprocess_handwritten
      [] OTHER -> preprocess_default

\* the try block of preprocess_image (ocr_processor.py:39-54): grayscale
\* conversion of a 3-D array, a copy of a 2-D one, then the profile
PreprocessOps(image, preprocessing_type) ==
    <<IF image.channels = 3 THEN "COLOR_BGR2GRAY" ELSE "copy">>
    \o ProfileOps(preprocessing_type)

\* a preprocess_image whose except clause hands back what it had computed
\* before the failure
preprocess_image_keeping_partial(image, preprocessing_type) ==
    LET ops == PreprocessOps(image, preprocessing_type)
        failed == CHOOSE k \in 1..Len(ops) : ops[k] = image.fails_at
    IN  IF Raises(image, ops) THEN ApplyOps(image, SubSeq(ops, 1, failed - 1))
        ELSE ApplyOps(image, ops)

\* preprocess_image (ocr_processor.py:35-58): the preprocessed array, or the
\* argument itself when anything in the try block raised
preprocess_image(image, preprocessing_type) ==
    IF Raises(image, PreprocessOps(image, preprocessing_type)) THEN image
    ELSE ApplyOps(image, PreprocessOps(image, preprocessing_type))

\* self.ocr_configs and self.languages (ocr_processor.py:16-33)
ocr_configs ==
    {"default", "single_column", "single_line", "single_word", "table", "sparse"}
languages == {"english", "spanish", "french", "german", "chinese", "arabic"}

\* ' '.join(text_parts)
RECURSIVE JoinWords(_)
JoinWords(parts) ==
    IF parts = <<>> THEN <<>>
    ELSE IF Len(parts) = 1 THEN parts[1]
    ELSE parts[1] \o <<SP>> \o JoinWords(Tail(parts))

RECURSIVE SumSeq(_)
SumSeq(q) == IF q = <<>> THEN 0 ELSE Head(q) + SumSeq(Tail(q))

\* np.mean(confidences) if confidences else 0, as the fraction <<sum, count>>
MeanConfidence(confidences) ==
    IF confidences = <<>> THEN <<0, 1>> ELSE <<SumSeq(confidences), Len(confidences)>>

\* a filter that also keeps the tokens whose confidence equals the threshold
KeptWordsAtLeast(words, confidence_threshold) ==
    SelectSeq(words, LAMBDA x : x.conf >= confidence_threshold /\ Strip(x.text) # <<>>)

\* the loop of extract_text over data['conf'] (ocr_processor.py:230-235)
KeptWords(words, confidence_threshold) ==
    SelectSeq(words, LAMBDA x : x.conf > confidence_threshold /\ Strip(x.text) # <<>>)

\* what extract_text returns; keys are the keys of the dict, error is str(e),
\* recognized_on is the array that was handed to pytesseract.image_to_data
\* ("none" when the call was not reached), raised says that the exception left
\* extract_text
OcrSuccess(text, confidences, preprocessing, config_type, language, processed) ==
    [raised |-> FALSE,
     keys |-> {"text", "confidence", "word_confidences", "preprocessing_used",
               "config_used", "language_used"},
     text |-> text, confidence |-> MeanConfidence(confidences),
     word_confidences |-> confidences, preprocessing_used |-> preprocessing,
     config_used |-> config_type, language_used |-> language, error |-> "",
     recognized_on |-> <<processed>>]

OcrFailure(error, recognized_on) ==
    [raised |-> FALSE, keys |-> {"text", "confidence", "error"},
     text |-> <<>>, confidence |-> <<0, 1>>, word_confidences |-> <<>>,
     preprocessing_used |-> "", config_used |-> "", language_used |-> "",
     error |-> error, recognized_on |-> recognized_on]

\* what a caller sees when the exception leaves extract_text
OcrRaised(error, recognized_on) ==
    [OcrFailure(error, recognized_on) EXCEPT !.raised = TRUE, !.keys = {}]

\* the try block of extract_text (ocr_processor.py:204-247): exc is the library
\* call that raised ("" when none did), value is the dict of the return statement
ExtractTextTry(image, config_type, language, preprocessing, confidence_threshold) ==
    IF image.fails_at = "np.array" \/ (image.channels = 3 /\ image.fails_at = "COLOR_RGB2BGR")
    THEN [exc |-> image.fails_at, recognized_on |-> <<>>, kept |-> <<>>]
    ELSE LET processed_img == preprocess_image(image, preprocessing)
         IN  IF image.fails_at = "Image.fromarray"
             THEN [exc |-> image.fails_at, recognized_on |-> <<>>, kept |-> <<>>]
             ELSE IF image.fails_at = "image_to_data"
             THEN [exc |-> image.fails_at, recognized_on |-> <<processed_img>>, kept |-> <<>>]
             ELSE [exc |-> "", recognized_on |-> <<processed_img>>,
                   kept |-> KeptWords(image.words, confidence_threshold)]

\* the return statement of the try block (ocr_processor.py:237-247)
OcrResultOf(t, config_type, language, preprocessing) ==
    OcrSuccess(JoinWords([k \in 1..Len(t.kept) |-> Strip(t.kept[k].text)]),
               [k \in 1..Len(t.kept) |-> t.kept[k].conf],
               preprocessing, config_type, language, t.recognized_on[1])

\* an extract_text without its except clause: the exception leaves the method
extract_text_without_except(image, config_type, language, preprocessing, confidence_threshold) ==
    LET t == ExtractTextTry(image, config_type, language, preprocessing, confidence_threshold)
    IN  IF t.exc # "" THEN OcrRaised(t.exc, t.recognized_on)
        ELSE OcrResultOf(t, config_type, language, preprocessing)

\* extract_text (ocr_processor.py:197-255)
extract_text(image, config_type, language, preprocessing, confidence_threshold) ==
    LET t == ExtractTextTry(image, config_type, language, preprocessing, confidence_threshold)
    IN  IF t.exc # "" THEN OcrFailure(t.exc, t.recognized_on)
        ELSE OcrResultOf(t, config_type, language, preprocessing)

\* the images handed to the OCR code: 2-D and 3-D arrays of 2 x 3 pixels, every
\* library call failing in turn, with four recognition outputs.  Tesseract gives
\* confidence -1 and an empty text to the rows of a block, paragraph or line,
\* and a confidence of 0..100 to the rows of a word
OcrWords ==
    { <<>>,
      << [conf |-> 95, text |-> <<"a">>], [conf |-> 40, text |-> <<SP, "b">>] >>,
      << [conf |-> -1, text |-> <<>>], [conf |-> 80, text |-> <<SP>>],
         [conf |-> 60, text |-> <<"b">>] >>,
      << [conf |-> 50, text |-> <<"b">>], [conf |-> -1, text |-> <<>>],
         [conf |-> 100, text |-> <<"a">>], [conf |-> 0, text |-> <<"a">>] >> }

\* the values of confidence_threshold the model calls extract_text with
Thresholds == {-2, 0, 50}

\* an image array as it is loaded
Image(h, w, channels, fails_at, words, lines) ==
    [h |-> h, w |-> w, channels |-> channels, binary |-> FALSE, ops |-> <<>>,
     fails_at |-> fails_at, words |-> words, lines |-> lines, tilt2 |-> 0]

OcrImages ==
    { Image(2, 3, c, x, ws, lines) :
        c \in {1, 3}, x \in LibraryCalls \cup {"none"}, ws \in OcrWords,
        lines \in {HoughNone, HoughLines(<<100, 80, 101>>)} }

\* the angles theta of the detected lines the model enumerates: line angles of
\* -90, -46, -45, -44, -10, 0, 10, 44, 45, 46 and 89 degrees
Thetas == {0, 44, 45, 46, 80, 90, 100, 134, 135, 136, 179}

\* the images handed to _deskew_image: grayscale arrays with every list of up
\* to MaxLines detected lines, or with none
DeskewImages ==
    { Image(2, 3, 1, "none", <<>>, lines) :
        lines \in {HoughNone} \cup
                  {HoughLines(q) : q \in SeqsUpTo(Thetas, MaxLines) \ {<<>>}} }

Profiles == {"default", "scanned_document", "photo_document", "low_quality",
             "handwritten", "unknown"}

\* detect_language.  A line of the output of pytesseract.image_to_osd is a list
\* of tokens: ":" for a colon, and the text between two colons as one token
\* (with its blanks).  "Script: Han" is <<"Script", ":", " Han">>.

\* 'Script:' in line
ContainsScriptColon(line) ==
    \E k \in 1..(Len(line) - 1) : line[k] = "Script" /\ line[k + 1] = ":"

\* line.split(':')[1]: what stands between the first colon and the next one
SecondField(line) ==
    LET colon == Least({k \in 1..Len(line) : line[k] = ":"})
    IN  IF colon < Len(line) /\ line[colon + 1] # ":" THEN line[colon + 1] ELSE ""

\* .strip() of the tokens of the model
StripToken(token) ==
    CASE token = " Latin" -> "Latin"
      [] token = " Arabic" -> "Arabic"
      [] token = " Han" -> "Han"
      [] token = " Cyrillic" -> "Cyrillic"
      [] token = " 0" -> "0"
      [] token = " 1.50" -> "1.50"
      [] OTHER -> token

\* script_to_lang.get(script, 'english') (ocr_processor.py:269-274)
script_to_lang(script) ==
    CASE script = "Latin" -> "english"
      [] script = "Arabic" -> "arabic"
      [] script = "Han" -> "chinese"
      [] OTHER -> "english"

\* a loop that goes on after a script line and so answers with the last one
LastOf(S) == CHOOSE x \in S : \A y \in S : y <= x

\* the line at which the loop over osd.split('\n') returns: the first one
FirstOf(S) == Least(S)

\* detect_language (ocr_processor.py:257-280); osd is what image_to_osd did:
\* it raised, or it returned these lines
detect_language(osd) ==
    LET script_lines == {k \in 1..Len(osd.lines) : ContainsScriptColon(osd.lines[k])}
    IN  IF osd.raised THEN "english"
        ELSE IF script_lines = {} THEN "english"
        ELSE script_to_lang(StripToken(SecondField(osd.lines[FirstOf(script_lines)])))

\* the lines Tesseract writes in its orientation and script report, and the
\* empty line that follows the last newline
OsdLines ==
    { <<"Page number", ":", " 0">>, <<"Rotate", ":", " 0">>,
      <<"Script", ":", " Latin">>, <<"Script", ":", " Arabic">>,
      <<"Script", ":", " Han">>, <<"Script", ":", " Cyrillic">>,
      <<"Script confidence", ":", " 1.50">>, <<>> }

\* what image_to_osd does on the enumerated images: it raises (too few
\* characters, no Tesseract), or it returns up to MaxOsdLines lines
OsdOutputs ==
    { [raised |-> TRUE, lines |-> <<>>] }
    \cup { [raised |-> FALSE, lines |-> q] : q \in SeqsUpTo(OsdLines, MaxOsdLines) }

\* what an image is to DocumentProcessor._ocr_image: the step of it that raises
\* and the text pytesseract.image_to_string reads
PipelineImages ==
    { [fault |-> fault, text |-> text] : fault \in OcrFaults, text \in ImageTexts }

\* SpecOcr: one call of the OCR code on one image; the OCR code keeps no state
\* between calls, so every call starts from the same state
InitOcr ==
    /\ uploaded_files = <<>>
    /\ cfg = Config(TRUE, MaxChunkSize, 1)
    /\ pc = "ocr"
    /\ idx = 0
    /\ all_documents = <<>>
    /\ progress = <<>>
    /\ vectorstore = None
    /\ processed_docs = <<>>
    /\ outcomes = <<>>
    /\ split_calls = <<>>
    /\ index_calls = <<>>
    /\ st_errors = <<>>
    /\ runs = 0
    /\ tmp_dir = 0
    /\ ocr_call = [op |-> "none"]
    /\ db = EmptyDb
    /\ current_model = "None"
    /\ file_infos = <<>>

pipelineVars == <<uploaded_files, cfg, pc, idx, all_documents, progress, vectorstore,
                  processed_docs, outcomes, split_calls, index_calls, st_errors, runs,
                  tmp_dir, db, current_model, file_infos>>

\* OCRProcessor.extract_text(image, config_type, language, preprocessing, confidence_threshold)
CallExtractText ==
    /\ pc = "ocr"
    /\ ocr_call.op = "none"
    /\ \E image \in OcrImages, config_type \in {"default", "sparse", "unknown"},
          language \in {"english", "klingon"}, preprocessing \in Profiles,
          confidence_threshold \in Thresholds :
        ocr_call' = [op |-> "extract_text", image |-> image,
                     preprocessing |-> preprocessing,
                     confidence_threshold |-> confidence_threshold,
                     result |-> extract_text(image, config_type, language, preprocessing,
                                             confidence_threshold)]
    /\ UNCHANGED pipelineVars

\* OCRProcessor.preprocess_image(image, preprocessing_type)
CallPreprocessImage ==
    /\ pc = "ocr"
    /\ ocr_call.op = "none"
    /\ \E image \in OcrImages, preprocessing \in Profiles :
        ocr_call' = [op |-> "preprocess_image", image |-> image,
                     preprocessing |-> preprocessing,
                     result |-> preprocess_image(image, preprocessing)]
    /\ UNCHANGED pipelineVars

\* OCRProcessor._deskew_image(image)
CallDeskewImage ==
    /\ pc = "ocr"
    /\ ocr_call.op = "none"
    /\ \E image \in DeskewImages :
        ocr_call' = [op |-> "_deskew_image", image |-> image,
                     result |-> deskew_image(image)]
    /\ UNCHANGED pipelineVars

\* OCRProcessor.detect_language(image)
CallDetectLanguage ==
    /\ pc = "ocr"
    /\ ocr_call.op = "none"
    /\ \E osd \in OsdOutputs :
        ocr_call' = [op |-> "detect_language", osd |-> osd,
                     result |-> detect_language(osd)]
    /\ UNCHANGED pipelineVars

\* DocumentProcessor._ocr_image(image)
CallOcrImage ==
    /\ pc = "ocr"
    /\ ocr_call.op = "none"
    /\ \E image \in PipelineImages :
        ocr_call' = [op |-> "_ocr_image", image |-> image,
                     engine_invoked |-> EngineInvoked(image),
                     result |-> ocr_image(image)]
    /\ UNCHANGED pipelineVars

NextOcr ==
    \/ CallExtractText
    \/ CallPreprocessImage
    \/ CallDeskewImage
    \/ CallDetectLanguage
    \/ CallOcrImage

SpecOcr == InitOcr /\ [][NextOcr]_vars


-----------------------------------------------------------------------------
(* Properties of process_documents and process_file *)

ChunkTexts(o) == [k \in 1..Len(o.documents) |-> o.documents[k].page_content]

\* the text a returned call handed to the chunker
TextOf(o) == o.split[1]

IsContentError(o) ==
    /\ o.status = "raised"
    /\ o.exc = "ValueError"
    /\ o.msg \in {MsgUnsupported, MsgNoContent}

RECURSIVE DocumentsOf(_)
DocumentsOf(os) ==
    IF os = <<>> THEN <<>> ELSE os[1].documents \o DocumentsOf(Tail(os))

BatchOver == pc \in {"done", "failed"}

\* C1: in a batch whose only failures are document-content errors of single
\* files, every file of the batch is processed and the chunks of the files that
\* succeeded are handed to index creation
C1_BatchNeverAborts ==
    (BatchOver /\ \A k \in 1..Len(outcomes) :
                      outcomes[k].status = "raised" => IsContentError(outcomes[k]))
    => /\ Len(outcomes) = Len(uploaded_files)
       /\ (\E k \in 1..Len(outcomes) : outcomes[k].status = "returned")
            => index_calls = <<DocumentsOf(outcomes)>>

\* the extensions the claims name as accepted
AcceptedExtensions ==
    { <<"p", "d", "f">>, <<"t", "x", "t">>, <<"d", "o", "c", "x">>,
      <<"p", "n", "g">>, <<"j", "p", "g">>, <<"j", "p", "e", "g">> }

\* C2: every call on a file whose extension is not pdf, txt, docx, png, jpg or
\* jpeg ends in the unsupported-format error, which returns nothing and is not
\* the no-content error
C2_UnsupportedFormat ==
    \A k \in 1..Len(outcomes) :
        LET o == outcomes[k]
        IN  Lower(LastDotPart(o.arg.name)) \notin AcceptedExtensions
            => /\ o.status = "raised"
               /\ o.exc = "ValueError"
               /\ o.msg = MsgUnsupported
               /\ o.msg # MsgNoContent
               /\ o.documents = <<>>

C2_Witness ==
    /\ outcomes # <<>>
    /\ outcomes[1].arg.name = NameReadme
    /\ outcomes[1].msg = MsgUnsupported

\* what the extractor of a supported file yields on the file object of call k
ExtractionOf(o) ==
    RunProcessor(Lower(LastDotPart(o.arg.name)), o.arg, cfg.ocr_enabled)

\* C3: a call whose extracted text is empty or whitespace-only raises the
\* no-content error and returns no chunk; no call returns an empty chunk list,
\* and the chunker is never handed such a text
C3_NoContent ==
    /\ \A k \in 1..Len(outcomes) :
        LET o == outcomes[k]
        IN  /\ (/\ Lower(LastDotPart(o.arg.name)) \in AcceptedExtensions
                /\ ExtractionOf(o).exc = ""
                /\ \A j \in 1..Len(ExtractionOf(o).text) :
                       ExtractionOf(o).text[j] \in Whitespace)
               => /\ o.status = "raised"
                  /\ o.exc = "ValueError"
                  /\ o.msg = MsgNoContent
                  /\ o.documents = <<>>
                  /\ o.split = <<>>
            /\ o.status = "returned" => o.documents # <<>>
    /\ \A k \in 1..Len(split_calls) :
        \E j \in 1..Len(split_calls[k]) : split_calls[k][j] \notin Whitespace

\* a zero-byte .txt upload, and a whitespace-only one, were processed
C3_Witness ==
    /\ outcomes # <<>>
    /\ outcomes[1].arg.name = NameATxt
    /\ outcomes[1].arg.bytes \in {<<>>, <<32, 10>>}
    /\ outcomes[1].msg = MsgNoContent

\* C4: the chunk at position i (from 0) of a returned list of n chunks carries
\* chunk_id i, total_chunks n, the file's name, its lower-cased extension and
\* the OCR flag of the call
C4_Metadata ==
    \A k \in 1..Len(outcomes) :
        LET o == outcomes[k]
            n == Len(o.documents)
        IN  o.status = "returned"
            => /\ n >= 1
               /\ \A i \in 0..(n - 1) :
                    LET m == o.documents[i + 1].metadata
                    IN  /\ m.chunk_id = i
                        /\ m.total_chunks = n
                        /\ m.filename = o.arg.name
                        /\ m.file_type = Lower(LastDotPart(o.arg.name))
                        /\ m.ocr_enabled = cfg.ocr_enabled

\* a file with an upper-case extension returned several chunks, OCR disabled
C4_Witness ==
    /\ outcomes # <<>>
    /\ outcomes[1].arg.name = NameBTXT
    /\ Len(outcomes[1].documents) >= 2
    /\ ~cfg.ocr_enabled

\* C5: with chunk_overlap < chunk_size, every chunk but possibly the last is at
\* most chunk_size characters long
C5_ChunkLength ==
    \A k \in 1..Len(outcomes) :
        LET o == outcomes[k]
        IN  (o.status = "returned" /\ cfg.chunk_overlap < cfg.chunk_size)
            => \A i \in 1..(Len(o.documents) - 1) :
                   Len(o.documents[i].page_content) <= cfg.chunk_size

\* three chunks or more, one before the last as long as chunk_size, overlap in use
C5_Witness ==
    /\ outcomes # <<>>
    /\ outcomes[1].status = "returned"
    /\ cfg.chunk_overlap < cfg.chunk_size
    /\ cfg.chunk_overlap > 0
    /\ Len(outcomes[1].documents) >= 3
    /\ Len(outcomes[1].documents[2].page_content) = cfg.chunk_size

LastChars(c, n) == SubSeq(c, Len(c) - n + 1, Len(c))
FirstChars(c, n) == SubSeq(c, 1, n)

\* C6 as claimed: two adjacent chunks (each at least chunk_overlap long) share
\* exactly chunk_overlap characters: the last chunk_overlap characters of the
\* first are the first chunk_overlap characters of the second
C6_ExactOverlap ==
    \A k \in 1..Len(outcomes) :
        LET o == outcomes[k]
            O == cfg.chunk_overlap
        IN  (o.status = "returned" /\ O < cfg.chunk_size)
            => \A i \in 1..(Len(o.documents) - 1) :
                 LET c1 == o.documents[i].page_content
                     c2 == o.documents[i + 1].page_content
                 IN  (Len(c1) >= O /\ Len(c2) >= O) => LastChars(c1, O) = FirstChars(c2, O)

\* the slices of its text that the chunks of a returned call are
SlicesOf(o) == SplitSlices(TextOf(o), cfg.chunk_size, cfg.chunk_overlap)

\* the number of characters of the text that chunk i and chunk i + 1 both hold
Shared(sl, i) == IF sl[i][2] >= sl[i + 1][1] THEN sl[i][2] - sl[i + 1][1] + 1 ELSE 0

\* C6 amended: every chunk is a slice of the text; a chunk starts no earlier than
\* the chunk before it, and the two share at most chunk_overlap characters
C6_OverlapAtMost ==
    \A k \in 1..Len(outcomes) :
        LET o == outcomes[k]
        IN  (o.status = "returned" /\ cfg.chunk_overlap < cfg.chunk_size)
            => LET sl == SlicesOf(o)
               IN  /\ Len(sl) = Len(o.documents)
                   /\ \A i \in 1..Len(sl) :
                        o.documents[i].page_content = SubSeq(TextOf(o), sl[i][1], sl[i][2])
                   /\ \A i \in 1..(Len(sl) - 1) :
                        /\ sl[i][1] <= sl[i + 1][1]
                        /\ sl[i][2] <= sl[i + 1][2]
                        /\ Shared(sl, i) <= cfg.chunk_overlap

\* two adjacent chunks that share fewer characters than chunk_overlap, and two
\* that share exactly chunk_overlap characters
C6_Witness ==
    /\ outcomes # <<>>
    /\ outcomes[1].status = "returned"
    /\ cfg.chunk_overlap < cfg.chunk_size
    /\ cfg.chunk_overlap > 0
    /\ LET sl == SlicesOf(outcomes[1])
       IN  /\ \E i \in 1..(Len(sl) - 1) : Shared(sl, i) < cfg.chunk_overlap
           /\ \E i \in 1..(Len(sl) - 1) : Shared(sl, i) = cfg.chunk_overlap

\* the chunks concatenated in order, each without the characters it shares with
\* the chunk before it
RECURSIVE Reconstruct(_, _, _)
Reconstruct(o, sl, i) ==
    IF i > Len(sl) THEN <<>>
    ELSE LET c == o.documents[i].page_content
             dup == IF i = 1 THEN 0 ELSE Shared(sl, i - 1)
         IN  SubSeq(c, dup + 1, Len(c)) \o Reconstruct(o, sl, i + 1)

WithoutWhitespace(t) ==
    LET Keeps(c) == c \notin Whitespace
    IN  SelectSeq(t, Keeps)

\* C7 as claimed: the chunks of a document, concatenated without the duplicated
\* overlap, are the extracted text, whitespace and separators included
C7_RoundTripExact ==
    \A k \in 1..Len(outcomes) :
        LET o == outcomes[k]
        IN  (o.status = "returned" /\ cfg.chunk_overlap < cfg.chunk_size)
            => Reconstruct(o, SlicesOf(o), 1) = TextOf(o)

\* C7 amended: the chunks concatenated without the duplicated overlap are the
\* extracted text up to whitespace: every other character, in order
C7_RoundTripUpToWhitespace ==
    \A k \in 1..Len(outcomes) :
        LET o == outcomes[k]
        IN  (o.status = "returned" /\ cfg.chunk_overlap < cfg.chunk_size)
            => WithoutWhitespace(Reconstruct(o, SlicesOf(o), 1))
               = WithoutWhitespace(TextOf(o))

\* a document of several overlapping chunks whose reconstruction lost whitespace
C7_Witness ==
    /\ outcomes # <<>>
    /\ outcomes[1].status = "returned"
    /\ cfg.chunk_overlap < cfg.chunk_size
    /\ Len(outcomes[1].documents) >= 2
    /\ \E i \in 1..(Len(outcomes[1].documents) - 1) : Shared(SlicesOf(outcomes[1]), i) > 0
    /\ Reconstruct(outcomes[1], SlicesOf(outcomes[1]), 1) # TextOf(outcomes[1])

\* a first call on a plain-text file of valid UTF-8, with chunk_overlap < chunk_size
IsPlainTextCall(k) ==
    /\ k = 1
    /\ Lower(LastDotPart(outcomes[k].arg.name)) = <<"t", "x", "t">>
    /\ outcomes[k].arg.fmt = "text"
    /\ Utf8Valid(outcomes[k].arg.bytes)
    /\ cfg.chunk_overlap < cfg.chunk_size

IsWhitespaceByte(b) == Latin1Char(b) \in Whitespace

IsNonBlank(bs) == \E j \in 1..Len(bs) : ~IsWhitespaceByte(bs[j])

\* C8 as claimed: a plain-text file (with some character other than whitespace)
\* of chunk_size characters or fewer yields exactly one chunk, and every one of
\* chunk_size + 1 characters at least two
C8_Boundary ==
    \A k \in 1..Len(outcomes) :
        LET o == outcomes[k]
            len == Len(o.arg.bytes)
        IN  (IsPlainTextCall(k) /\ IsNonBlank(o.arg.bytes))
            => /\ len <= cfg.chunk_size => (o.status = "returned" /\ Len(o.documents) = 1)
               /\ len = cfg.chunk_size + 1 => (o.status = "returned" /\ Len(o.documents) >= 2)

\* C8 amended: a plain-text file of chunk_size characters or fewer that holds a
\* character other than whitespace yields exactly one chunk, and one of
\* chunk_size + 1 characters that neither begins nor ends with whitespace yields
\* at least two
C8_BoundaryNonBlank ==
    \A k \in 1..Len(outcomes) :
        LET o == outcomes[k]
            bs == o.arg.bytes
            len == Len(bs)
        IN  IsPlainTextCall(k)
            => /\ (len <= cfg.chunk_size /\ IsNonBlank(bs))
                  => (o.status = "returned" /\ Len(o.documents) = 1)
               /\ (len = cfg.chunk_size + 1 /\ ~IsWhitespaceByte(bs[1])
                   /\ ~IsWhitespaceByte(bs[len]))
                  => (o.status = "returned" /\ Len(o.documents) >= 2)

\* a file of exactly chunk_size characters with whitespace inside that gave one
\* chunk, with overlap in use
C8_Witness ==
    /\ outcomes # <<>>
    /\ IsPlainTextCall(1)
    /\ cfg.chunk_overlap > 0
    /\ Len(outcomes[1].arg.bytes) = cfg.chunk_size
    /\ \E j \in 1..Len(outcomes[1].arg.bytes) : IsWhitespaceByte(outcomes[1].arg.bytes[j])
    /\ Len(outcomes[1].documents) = 1

IsScenarioCall(k) ==
    /\ k = 1
    /\ outcomes[k].arg = ScenarioFile
    /\ cfg = ScenarioConfig

\* C9 as claimed: "Hello world. " * 100 with chunk_size 500 and overlap 100 gives
\* exactly 3 chunks, the last 100 characters of chunk 0 are the first 100 of
\* chunk 1, and the last chunk has at most 500 characters
C9_Scenario ==
    \A k \in 1..Len(outcomes) :
        IsScenarioCall(k)
        => LET c == ChunkTexts(outcomes[k])
           IN  /\ outcomes[k].status = "returned"
               /\ Len(c) = 3
               /\ LastChars(c[1], 100) = FirstChars(c[2], 100)
               /\ Len(c[3]) <= 500

\* C9 amended: the scenario gives exactly 3 chunks, of 499, 499 and 493
\* characters; chunk 1 starts 96 characters before the end of chunk 0, so the two
\* share a 96-character region, not a 100-character one
C9_ScenarioShares96 ==
    \A k \in 1..Len(outcomes) :
        IsScenarioCall(k)
        => LET c == ChunkTexts(outcomes[k])
               sl == SlicesOf(outcomes[k])
           IN  /\ outcomes[k].status = "returned"
               /\ Len(c) = 3
               /\ <<Len(c[1]), Len(c[2]), Len(c[3])>> = <<499, 499, 493>>
               /\ Shared(sl, 1) = 96
               /\ LastChars(c[1], 96) = FirstChars(c[2], 96)
               /\ LastChars(c[1], 100) # FirstChars(c[2], 100)
               /\ Len(c[3]) <= 500

C9_Witness ==
    /\ outcomes # <<>>
    /\ IsScenarioCall(1)
    /\ outcomes[1].status = "returned"

\* C10: two calls of process_file on the same uploaded file with the same
\* settings end the same way and give the same chunk texts in the same order
C10_SameChunksTwice ==
    Len(outcomes) >= 2
    => /\ outcomes[2].status = outcomes[1].status
       /\ ChunkTexts(outcomes[2]) = ChunkTexts(outcomes[1])

\* C11: after every call of process_file no temporary file made by an extractor
\* is left in the temporary directory, whatever step of the extraction failed
C11_TempFilesRemoved ==
    /\ tmp_dir = 0
    /\ \A k \in 1..Len(outcomes) : outcomes[k].tmp_left = 0

\* what does hold: a temporary file is left behind only by a call in which
\* writing the uploaded bytes raised; every other exit path removes it
C11_RemovedUnlessWriteFails ==
    \A k \in 1..Len(outcomes) :
        outcomes[k].arg.fault # "write" => outcomes[k].tmp_left = 0

C11_Witness ==
    \E k \in 1..Len(outcomes) :
        /\ outcomes[k].arg.fault = "extract"
        /\ outcomes[k].tmp_created = 1
        /\ outcomes[k].exc = "RuntimeError"

\* the calls that ran the PDF extractor on a complete PDF and got its text
IsPdfExtraction(o) ==
    /\ o.arg.fmt = "pdf"
    /\ o.extracted.ran
    /\ o.extracted.exc = ""

\* the marker of page k as it stands in the extracted text
Marker(k) == <<"P", "a", "g", "e", SP>> \o PageNumber(k) \o <<":", NL>>

\* the positions of the extracted text at which the text m stands
Occurrences(text, m) ==
    {p \in 1..Len(text) : p + Len(m) - 1 <= Len(text) /\ SubSeq(text, p, p + Len(m) - 1) = m}

\* what stands under the marker at position p: the text from the end of the
\* marker to the blank line before the next marker, or to the end
UnderMarker(text, p, k) ==
    LET later == {q \in Occurrences(text, <<NL, NL, "P", "a", "g", "e", SP>>) : q > p}
        stop == IF later = {} THEN Len(text) ELSE Least(later) - 1
    IN  SubSeq(text, p + Len(Marker(k)), stop)

\* the pages of a PDF that have no native text layer
HasNoTextLayer(page) == \A j \in 1..Len(page.native) : page.native[j] \in Whitespace

\* C12 as stated: a page without a text layer contributes nothing when OCR is
\* disabled, and exactly what the engine read on it, under its marker, when
\* OCR is enabled
C12_OcrPageExact ==
    \A c \in 1..Len(outcomes) :
        LET o == outcomes[c]
            text == o.extracted.text
        IN  IsPdfExtraction(o) =>
              \A k \in 1..Len(o.arg.pages) :
                 LET page == o.arg.pages[k]
                     at == Occurrences(text, Marker(k))
                 IN  (HasNoTextLayer(page) /\ page.ocr.fault = "none") =>
                        IF cfg.ocr_enabled
                        THEN /\ Cardinality(at) = 1
                             /\ UnderMarker(text, Least(at), k) = page.ocr.text
                        ELSE at = {}

\* C12, amended: with OCR disabled such a page contributes no text and no
\* marker; with OCR enabled it contributes what the engine read with the
\* whitespace at both ends removed, under its marker, and contributes nothing,
\* marker included, when that is empty or when the OCR step failed
C12_OcrPageStripped ==
    \A c \in 1..Len(outcomes) :
        LET o == outcomes[c]
            text == o.extracted.text
        IN  IsPdfExtraction(o) =>
              \A k \in 1..Len(o.arg.pages) :
                 LET page == o.arg.pages[k]
                     at == Occurrences(text, Marker(k))
                     read == IF page.ocr.fault = "none" THEN Strip(page.ocr.text) ELSE <<>>
                 IN  HasNoTextLayer(page) =>
                        IF cfg.ocr_enabled /\ read # <<>>
                        THEN /\ Cardinality(at) = 1
                             /\ UnderMarker(text, Least(at), k) = read
                        ELSE at = {}

\* a two-page PDF whose second page has no text layer was extracted with OCR
\* enabled and the engine's output stands under the marker of page 2
C12_Witness ==
    \E c \in 1..Len(outcomes) :
        LET o == outcomes[c]
        IN  /\ IsPdfExtraction(o)
            /\ cfg.ocr_enabled
            /\ Len(o.arg.pages) = 2
            /\ o.arg.pages[1].native = <<"a">>
            /\ o.arg.pages[2] = Page(<<>>, "none", <<"b", NL>>)
            /\ Occurrences(o.extracted.text, Marker(2)) # {}

\* the calls that ran the plain-text extractor on an upload nobody had read yet
IsTxtExtraction(o) ==
    /\ o.arg.fmt = "text"
    /\ Lower(LastDotPart(o.arg.name)) = <<"t", "x", "t">>
    /\ o.arg.pos = 0
    /\ o.extracted.ran

\* C13: on every byte content _process_txt returns without raising; it returns
\* the UTF-8 decoding when the bytes are valid UTF-8 and otherwise the Latin-1
\* decoding of the whole content, one character for every byte from the first
C13_TxtDecoding ==
    \A c \in 1..Len(outcomes) :
        LET o == outcomes[c]
            bs == o.arg.bytes
            text == o.extracted.text
        IN  IsTxtExtraction(o) =>
              /\ o.extracted.exc = ""
              /\ IF Utf8Valid(bs)
                 THEN text = Utf8Decode(bs)
                 ELSE /\ Len(text) = Len(bs)
                      /\ \A j \in 1..Len(bs) : text[j] = Latin1Char(bs[j])

\* the bytes C3 A9 FF, not valid UTF-8, were decoded as three Latin-1 characters
C13_Witness ==
    \E c \in 1..Len(outcomes) :
        /\ IsTxtExtraction(outcomes[c])
        /\ outcomes[c].arg.bytes = <<195, 169, 255>>
        /\ outcomes[c].extracted.text = <<"A_tilde", "copyright", "y_diaeresis">>

\* the bytes C3 A9, valid UTF-8, were decoded as the one character e-acute
C13_WitnessUtf8 ==
    \E c \in 1..Len(outcomes) :
        /\ IsTxtExtraction(outcomes[c])
        /\ outcomes[c].arg.bytes = <<97, 195, 169>>
        /\ outcomes[c].extracted.text = <<"a", "e_acute">>

ImageExtensions == { <<"p", "n", "g">>, <<"j", "p", "g">>, <<"j", "p", "e", "g">> }

\* the calls made on an image upload with OCR disabled
IsImageCallWithoutOcr(o) ==
    /\ Lower(LastDotPart(o.arg.name)) \in ImageExtensions
    /\ o.arg.fmt = "image"
    /\ ~cfg.ocr_enabled

\* the file object as call c left it
FileAfter(c) == IF c < Len(outcomes) THEN outcomes[c + 1].arg ELSE uploaded_files[1]

\* the extractor's part of C14: empty text, nothing raised by the extractor, the
\* upload not read (the image is not decoded) and the OCR not run
ImageExtractionIsNoOp(c) ==
    /\ outcomes[c].extracted.ran
    /\ outcomes[c].extracted.text = <<>>
    /\ outcomes[c].extracted.exc = ""
    /\ outcomes[c].ocr_runs = 0
    /\ FileAfter(c) = outcomes[c].arg

\* C14 as stated: for an image with OCR disabled the extraction is a no-op and
\* no error is raised for the file
C14_DisabledOcrNoError ==
    \A c \in 1..Len(outcomes) :
        IsImageCallWithoutOcr(outcomes[c])
        => /\ ImageExtractionIsNoOp(c)
           /\ outcomes[c].status # "raised"

\* C14, amended: for an image with OCR disabled the extractor returns empty text
\* without raising, decoding the image or running the OCR, and process_file
\* then raises the no-content error for the file and returns no chunk
C14_DisabledOcrNoContent ==
    \A c \in 1..Len(outcomes) :
        IsImageCallWithoutOcr(outcomes[c])
        => /\ ImageExtractionIsNoOp(c)
           /\ outcomes[c].status = "raised"
           /\ outcomes[c].exc = "ValueError"
           /\ outcomes[c].msg = MsgNoContent
           /\ outcomes[c].documents = <<>>

\* an image on which the engine would read 'a b' was processed with OCR disabled
C14_Witness ==
    \E c \in 1..Len(outcomes) :
        /\ IsImageCallWithoutOcr(outcomes[c])
        /\ outcomes[c].arg.ocr = [fault |-> "none", text |-> <<"a", SP, "b", NL>>]
        /\ outcomes[c].msg = MsgNoContent

-----------------------------------------------------------------------------
(* Properties of the OCR code *)

\* the library calls extract_text makes itself, outside preprocess_image
ConversionAndRecognition(image) ==
    {"np.array", "Image.fromarray", "image_to_data"}
    \cup (IF image.channels = 3 THEN {"COLOR_RGB2BGR"} ELSE {})

\* the last call was an extract_text in which a library call raised: one of its
\* own, or one of the preprocessing it reached
ExtractTextFailedIn(calls) ==
    /\ ocr_call.op = "extract_text"
    /\ ocr_call.image.fails_at \in calls

PreprocessingCalls(image, preprocessing) ==
    {PreprocessOps(image, preprocessing)[k] : k \in 1..Len(PreprocessOps(image, preprocessing))}

IsErrorResult(r) ==
    /\ ~r.raised
    /\ r.text = <<>>
    /\ r.confidence = <<0, 1>>
    /\ "error" \in r.keys
    /\ r.error # ""

\* the last call was a _ocr_image on an image on which one of its steps raises
OcrImageFailed == ocr_call.op = "_ocr_image" /\ ocr_call.image.fault # "none"

\* C15 as stated: whatever raises during conversion, preprocessing or
\* recognition, extract_text returns empty text, confidence 0 and an error
\* description, and _ocr_image returns empty text; neither raises
C15_FailureGivesErrorResult ==
    /\ (/\ ocr_call.op = "extract_text"
        /\ ocr_call.image.fails_at \notin {"np.array", "COLOR_RGB2BGR"}
        /\ ExtractTextFailedIn(PreprocessingCalls(ocr_call.image, ocr_call.preprocessing)))
       => IsErrorResult(ocr_call.result)
    /\ ExtractTextFailedIn(ConversionAndRecognition(ocr_call.image))
       => IsErrorResult(ocr_call.result)
    /\ OcrImageFailed => ocr_call.result = <<>>

\* C15, amended: no failure leaves extract_text or _ocr_image.  A failure of the
\* conversion or of the recognition pass gives the result with empty text,
\* confidence 0 and the error description; a failure of a preprocessing step is
\* absorbed by preprocess_image and extract_text returns the ordinary result of
\* recognizing the original image, with no error attached; _ocr_image returns
\* empty text when any of its steps fails
C15_FailureNeverPropagates ==
    /\ ocr_call.op = "extract_text" => ~ocr_call.result.raised
    /\ ExtractTextFailedIn(ConversionAndRecognition(ocr_call.image))
       => IsErrorResult(ocr_call.result)
    /\ (/\ ocr_call.op = "extract_text"
        /\ ocr_call.image.fails_at \notin ConversionAndRecognition(ocr_call.image))
       => /\ "error" \notin ocr_call.result.keys
          /\ ocr_call.result.word_confidences =
                [k \in 1..Len(KeptWords(ocr_call.image.words, ocr_call.confidence_threshold)) |->
                    KeptWords(ocr_call.image.words, ocr_call.confidence_threshold)[k].conf]
    /\ OcrImageFailed => ocr_call.result = <<>>

\* the recognition pass raised on a 3-D image with two readable words
C15_Witness ==
    /\ ExtractTextFailedIn({"image_to_data"})
    /\ ocr_call.image.channels = 3
    /\ Len(ocr_call.image.words) = 2
    /\ IsErrorResult(ocr_call.result)

\* _ocr_image returned empty text on an image whose recognition raised
C15_WitnessPipeline ==
    /\ OcrImageFailed
    /\ ocr_call.image.fault = "recognize"
    /\ ocr_call.result = <<>>

\* the last call reached a preprocessing step that raised
PreprocessingFailed ==
    /\ ocr_call.op \in {"preprocess_image", "extract_text"}
    /\ ocr_call.image.fails_at \in PreprocessingCalls(ocr_call.image, ocr_call.preprocessing)
    /\ ocr_call.op = "extract_text" =>
          ocr_call.image.fails_at \notin ConversionAndRecognition(ocr_call.image)

\* what holds of OCRProcessor: when a step of any profile raises,
\* preprocess_image returns its argument as it was, and extract_text hands that
\* very image to the recognition pass
C16_OcrProcessorFallsBack ==
    PreprocessingFailed =>
        /\ ocr_call.op = "preprocess_image" => ocr_call.result = ocr_call.image
        /\ ocr_call.op = "extract_text" => ocr_call.result.recognized_on = <<ocr_call.image>>

\* C16: when a preprocessing step fails, preprocessing returns the original
\* image and the recognition pass still runs on it, in OCRProcessor for every
\* profile and in _ocr_image, the OCR path of the document pipeline
C16_PreprocessFailureStillRecognizes ==
    /\ C16_OcrProcessorFallsBack
    /\ (ocr_call.op = "_ocr_image" /\ ocr_call.image.fault = "preprocess")
       => ocr_call.engine_invoked

\* a step of the low-quality profile raised on a 3-D image inside extract_text
C16_Witness ==
    /\ PreprocessingFailed
    /\ ocr_call.op = "extract_text"
    /\ ocr_call.preprocessing = "low_quality"
    /\ ocr_call.image.fails_at = "fastNlMeansDenoising"
    /\ ocr_call.image.channels = 3

-----------------------------------------------------------------------------
(* Properties of the batch: order and progress *)

\* the number of chunks of the files before file k of the batch
RECURSIVE ChunksBefore(_)
ChunksBefore(k) ==
    IF k <= 1 THEN 0 ELSE ChunksBefore(k - 1) + Len(outcomes[k - 1].documents)

\* C17: what is handed to index creation holds the chunks of file 1, then those
\* of file 2, and so on in upload order; the chunks of file k stand together,
\* in the order process_file returned them, with chunk_id 0, 1, 2, ...
C17_AggregateOrder ==
    \A c \in 1..Len(index_calls) :
        LET D == index_calls[c]
            N == Len(uploaded_files)
        IN  /\ Len(outcomes) = N
            /\ Len(D) = ChunksBefore(N + 1)
            /\ \A k \in 1..N :
                 \A i \in 0..(Len(outcomes[k].documents) - 1) :
                    LET d == D[ChunksBefore(k) + i + 1]
                    IN  /\ d = outcomes[k].documents[i + 1]
                        /\ d.metadata.filename = uploaded_files[k].name
                        /\ d.metadata.chunk_id = i

\* a batch of two different files, the first of two or more chunks, was indexed
C17_Witness ==
    /\ index_calls # <<>>
    /\ Len(uploaded_files) = 2
    /\ uploaded_files[1].name # uploaded_files[2].name
    /\ Len(outcomes) = 2
    /\ Len(outcomes[1].documents) >= 2
    /\ Len(outcomes[2].documents) >= 1

\* the fraction <<a, b>> is at most the fraction <<c, d>>
FractionLeq(x, y) == x[1] * y[2] <= y[1] * x[2]

\* C18: when a batch of N files is over, a fraction was emitted after every one
\* of its files, failed ones included; the k-th of them is k/N, the values never
\* decrease and the last value emitted is 1
C18_ProgressAfterEveryFile ==
    BatchOver =>
        LET N == Len(uploaded_files)
        IN  /\ Len(progress) >= N + 1
            /\ \A k \in 1..N : progress[k + 1] = <<k, N>>
            /\ \A j \in 1..(Len(progress) - 1) : FractionLeq(progress[j], progress[j + 1])
            /\ progress[Len(progress)][1] = progress[Len(progress)][2]

\* what holds: a fraction is emitted after every file that was processed without
\* an error, the k-th of them k/N, and a batch that ends without an error ends at 1
C18_ProgressOfSuccessfulFiles ==
    LET N == Len(uploaded_files)
    IN  /\ pc # "idle" =>
            /\ Len(progress) >= idx + 1
            /\ \A k \in 1..idx : progress[k + 1] = <<k, N>>
            /\ \A j \in 1..(Len(progress) - 1) : FractionLeq(progress[j], progress[j + 1])
        /\ pc = "done" => progress[Len(progress)] = <<1, 1>>

C18_Witness ==
    /\ pc = "done"
    /\ Len(uploaded_files) = 2
    /\ progress = << <<0, 1>>, <<1, 2>>, <<2, 2>>, <<1, 1>> >>

-----------------------------------------------------------------------------
(* Properties of the PDF and DOCX extractors *)

\* page k yielded non-blank text: from its native layer, or, when it has none
\* and OCR is enabled, from an OCR step that did not fail
PageYieldsText(page, ocr_enabled) ==
    IF ~HasNoTextLayer(page) THEN TRUE
    ELSE /\ ocr_enabled
         /\ page.ocr.fault = "none"
         /\ \E j \in 1..Len(page.ocr.text) : page.ocr.text[j] \notin Whitespace

\* C19: the text extracted from a PDF holds the marker 'Page k:' once for every
\* page k (counted from 1 in the document) that yielded non-blank text, holds
\* no other marker, and holds the markers in increasing k
C19_PageMarkers ==
    \A c \in 1..Len(outcomes) :
        LET o == outcomes[c]
            text == o.extracted.text
            pages == o.arg.pages
            yielding == {k \in 1..Len(pages) : PageYieldsText(pages[k], cfg.ocr_enabled)}
        IN  IsPdfExtraction(o) =>
              /\ \A k \in 1..Len(pages) :
                    Cardinality(Occurrences(text, Marker(k))) = IF k \in yielding THEN 1 ELSE 0
              /\ Cardinality(Occurrences(text, <<"P", "a", "g", "e", SP>>)) = Cardinality(yielding)
              /\ \A j, k \in yielding :
                    j < k => Least(Occurrences(text, Marker(j))) < Least(Occurrences(text, Marker(k)))

\* a PDF whose first page yielded nothing and whose second page yielded text:
\* the text holds 'Page 2:' and no 'Page 1:'
C19_Witness ==
    \E c \in 1..Len(outcomes) :
        LET o == outcomes[c]
        IN  /\ IsPdfExtraction(o)
            /\ Len(o.arg.pages) = 2
            /\ ~PageYieldsText(o.arg.pages[1], cfg.ocr_enabled)
            /\ Occurrences(o.extracted.text, Marker(2)) = {1}
            /\ Occurrences(o.extracted.text, Marker(1)) = {}

\* the calls that ran the DOCX extractor on a complete DOCX and got its text
IsDocxExtraction(o) ==
    /\ o.arg.fmt = "docx"
    /\ o.extracted.ran
    /\ o.extracted.exc = ""

\* the lines of a body in document order: a non-blank paragraph is one line, a
\* table gives one line for each row that has a non-blank cell
RECURSIVE LinesInDocumentOrder(_)
LinesInDocumentOrder(body) ==
    IF body = <<>> THEN <<>>
    ELSE (IF body[1].kind = "p" THEN NonBlank(<<body[1].text>>) ELSE RowTexts(body[1].rows))
         \o LinesInDocumentOrder(Tail(body))

\* C20: the text extracted from a DOCX is its non-blank paragraphs and table
\* rows in document order, a table's rows standing before any paragraph that
\* follows the table; a row is its non-blank cells, stripped, joined by ' | ';
\* blank paragraphs and all-blank rows are left out
C20_DocxDocumentOrder ==
    \A c \in 1..Len(outcomes) :
        IsDocxExtraction(outcomes[c])
        => outcomes[c].extracted.text =
              JoinParagraphs(LinesInDocumentOrder(outcomes[c].arg.body))

\* what holds: the lines are those of the claim, but every paragraph of the
\* document stands before every table row
C20_DocxParagraphsBeforeTables ==
    \A c \in 1..Len(outcomes) :
        LET body == outcomes[c].arg.body
        IN  IsDocxExtraction(outcomes[c])
            => outcomes[c].extracted.text =
                  JoinParagraphs(
                     LinesInDocumentOrder(SelectSeq(body, LAMBDA e : e.kind = "p"))
                     \o LinesInDocumentOrder(SelectSeq(body, LAMBDA e : e.kind = "t")))

\* a DOCX with a table before a paragraph was extracted
C20_Witness ==
    \E c \in 1..Len(outcomes) :
        /\ IsDocxExtraction(outcomes[c])
        /\ Len(outcomes[c].arg.body) = 2
        /\ outcomes[c].arg.body[1].kind = "t"
        /\ outcomes[c].arg.body[2] = Paragraph(<<"a">>)
        /\ outcomes[c].extracted.text # <<>>

-----------------------------------------------------------------------------
(* Properties of OCRProcessor.extract_text: the confidence filter *)

\* a call of extract_text that came back from its try block
IsRecognition(c) ==
    c.op = "extract_text" /\ ~c.result.raised /\ c.result.error = ""

\* the k-th smallest element of a set of positions
KthOf(I, k) == CHOOSE i \in I : Cardinality({j \in I : j < i}) = k - 1

\* the tokens at the positions I of the recognition output are the ones the
\* result is made of: their confidences in layout order, their stripped texts
\* joined by single spaces, and the mean of their confidences (0 when I is empty)
ResultIsMadeOf(c, I) ==
    LET words == c.image.words
        r == c.result
        n == Cardinality(I)
    IN  /\ Len(r.word_confidences) = n
        /\ \A k \in 1..n : r.word_confidences[k] = words[KthOf(I, k)].conf
        /\ r.text = JoinWords([k \in 1..n |-> Strip(words[KthOf(I, k)].text)])
        /\ IF n = 0 THEN r.confidence[1] = 0
           ELSE /\ r.confidence[2] = n
                /\ r.confidence[1] = SumSeq(r.word_confidences)
        \* the mean lies within 0..100
        /\ r.confidence[1] >= 0
        /\ r.confidence[1] <= 100 * r.confidence[2]

\* C21 as stated: extract_text keeps exactly the tokens whose confidence is
\* greater than confidence_threshold, joins their texts with single spaces in
\* layout order, returns their confidences in that order and their arithmetic
\* mean (0 when none is kept), which lies within 0..100.
C21_KeepsAboveThreshold ==
    IsRecognition(ocr_call) =>
        ResultIsMadeOf(ocr_call,
            {i \in 1..Len(ocr_call.image.words) :
                ocr_call.image.words[i].conf > ocr_call.confidence_threshold})

\* C21 amended: extract_text keeps exactly the tokens whose confidence is greater
\* than confidence_threshold and whose text is not blank; it joins their stripped
\* texts with single spaces in layout order, returns their confidences in that
\* order and their arithmetic mean (0 when none is kept), which lies within 0..100.
C21_KeepsNonBlankAboveThreshold ==
    IsRecognition(ocr_call) =>
        ResultIsMadeOf(ocr_call,
            {i \in 1..Len(ocr_call.image.words) :
                /\ ocr_call.image.words[i].conf > ocr_call.confidence_threshold
                /\ Strip(ocr_call.image.words[i].text) # <<>>})

\* a recognition whose output has a token at the threshold, a token above it, a
\* token below it and a blank token, with a token kept
C21_Witness ==
    /\ IsRecognition(ocr_call)
    /\ \E i, j, k \in 1..Len(ocr_call.image.words) :
          /\ ocr_call.image.words[i].conf = ocr_call.confidence_threshold
          /\ ocr_call.image.words[j].conf > ocr_call.confidence_threshold
          /\ Strip(ocr_call.image.words[j].text) # <<>>
          /\ ocr_call.image.words[k].conf < ocr_call.confidence_threshold
    /\ Len(ocr_call.result.word_confidences) >= 1

\* a recognition with a negative threshold: the rows of confidence -1 pass the
\* threshold and are dropped for their empty text
C21_WitnessNegativeThreshold ==
    /\ IsRecognition(ocr_call)
    /\ ocr_call.confidence_threshold < -1
    /\ \E i \in 1..Len(ocr_call.image.words) : ocr_call.image.words[i].conf = -1
    /\ Len(ocr_call.result.word_confidences) >= 1

-----------------------------------------------------------------------------
(* Properties of OCRProcessor.preprocess_image and _deskew_image *)

\* the last call was a preprocess_image in which no library call raised
PreprocessingSucceeded ==
    /\ ocr_call.op = "preprocess_image"
    /\ ocr_call.image.fails_at \notin
          PreprocessingCalls(ocr_call.image, ocr_call.preprocessing)

\* the operations that turn an array of three dimensions into one of two
GrayscaleConversions == {"COLOR_BGR2GRAY"}

\* C22: successful preprocessing returns a single-channel image whose pixels
\* are all 0 or 255, of the size of the input (twice its height and width for
\* the low-quality profile); binarization is the last operation of every
\* profile and the grayscale conversion of a multi-channel image comes before
\* every step of the profile.
C22_BinarizedSingleChannel ==
    PreprocessingSucceeded =>
        LET image == ocr_call.image
            result == ocr_call.result
            scale == IF ocr_call.preprocessing = "low_quality" THEN 2 ELSE 1
        IN  /\ result.channels = 1
            /\ result.binary
            /\ result.h = scale * image.h
            /\ result.w = scale * image.w
            /\ result.ops # <<>>
            /\ result.ops[Len(result.ops)] \in Binarizations
            /\ image.channels = 3 => result.ops[1] \in GrayscaleConversions
            /\ \A k \in 2..Len(result.ops) : result.ops[k] \notin GrayscaleConversions

\* the low-quality profile succeeded on a 3-D image of 2 x 3 pixels
C22_Witness ==
    /\ PreprocessingSucceeded
    /\ ocr_call.preprocessing = "low_quality"
    /\ ocr_call.image.channels = 3
    /\ ocr_call.result.h = 4
    /\ ocr_call.result.w = 6

\* the scanned-document profile succeeded on an image its deskew has rotated
C22_WitnessScanned ==
    /\ PreprocessingSucceeded
    /\ ocr_call.preprocessing = "scanned_document"
    /\ ocr_call.result.tilt2 # 0
    /\ ocr_call.result.binary

\* the line angles of the argument of the last _deskew_image call
DetectedAngles ==
    [k \in 1..Len(ocr_call.image.lines.thetas) |-> LineAngle(ocr_call.image.lines.thetas[k])]

\* the sub-list of q at the positions I
AtPositions(q, I) == [k \in 1..Cardinality(I) |-> q[KthOf(I, k)]]

\* C23: the deskew accepts only detected line angles within 45 degrees of the
\* horizontal (every angle strictly inside is accepted, none outside is), turns
\* the image by the negative of the median of the accepted angles, and returns
\* the image unchanged when no line is detected or no angle is accepted.
C23_Deskew ==
    ocr_call.op = "_deskew_image" =>
        LET angles == DetectedAngles
            inside == {k \in 1..Len(angles) : Abs(angles[k]) < 45}
            within == {k \in 1..Len(angles) : Abs(angles[k]) <= 45}
        IN  \E I \in SUBSET within :
                /\ inside \subseteq I
                /\ IF I = {} THEN ocr_call.result = ocr_call.image
                   ELSE /\ ocr_call.result.tilt2 = -Median2(AtPositions(angles, I))
                        /\ ocr_call.result.h = ocr_call.image.h
                        /\ ocr_call.result.w = ocr_call.image.w

\* a deskew that rotated by the median of the two accepted angles out of three
\* detected ones, which is none of the detected angles
C23_Witness ==
    /\ ocr_call.op = "_deskew_image"
    /\ Len(DetectedAngles) = 3
    /\ Cardinality({k \in 1..3 : Abs(DetectedAngles[k]) < 45}) = 2
    /\ ocr_call.result.tilt2 \notin {0, -2 * DetectedAngles[1], -2 * DetectedAngles[2],
                                      -2 * DetectedAngles[3]}

\* a deskew that left alone an image whose detected lines are all beyond the range
C23_WitnessBeyondRange ==
    /\ ocr_call.op = "_deskew_image"
    /\ ocr_call.image.lines.found
    /\ \A k \in 1..Len(DetectedAngles) : Abs(DetectedAngles[k]) > 45
    /\ ocr_call.result = ocr_call.image

-----------------------------------------------------------------------------
(* Properties of OCRProcessor.detect_language *)

LanguageNames == {"english", "arabic", "chinese"}

\* the lines "Script: <name>" of the report of the last detect_language call
ScriptLines ==
    {k \in 1..Len(ocr_call.osd.lines) :
        /\ Len(ocr_call.osd.lines[k]) = 3
        /\ ocr_call.osd.lines[k][1] = "Script"
        /\ ocr_call.osd.lines[k][2] = ":"}

\* the script named by line k of the report
ScriptNamed(k, name) == ocr_call.osd.lines[k][3] \in {name, " " \o name}

\* C24: detect_language always answers with one of english, arabic, chinese:
\* english when detection fails or the report has no script line, and otherwise
\* what the first script line of the report maps to (Latin to english, Arabic
\* to arabic, Han to chinese, any other script to english).
C24_DetectLanguage ==
    ocr_call.op = "detect_language" =>
        /\ ocr_call.result \in LanguageNames
        /\ ocr_call.osd.raised => ocr_call.result = "english"
        /\ ScriptLines = {} => ocr_call.result = "english"
        /\ \A k \in ScriptLines :
              (\A j \in ScriptLines : k <= j) =>
                 /\ ScriptNamed(k, "Latin") => ocr_call.result = "english"
                 /\ ScriptNamed(k, "Arabic") => ocr_call.result = "arabic"
                 /\ ScriptNamed(k, "Han") => ocr_call.result = "chinese"
                 /\ (~ScriptNamed(k, "Latin") /\ ~ScriptNamed(k, "Arabic")
                      /\ ~ScriptNamed(k, "Han")) => ocr_call.result = "english"

\* a report whose first script line says Han, after another line, and whose
\* later script line says Arabic
C24_Witness ==
    /\ ocr_call.op = "detect_language"
    /\ Cardinality(ScriptLines) = 2
    /\ 1 \notin ScriptLines
    /\ ScriptNamed(2, "Han")
    /\ ScriptNamed(3, "Arabic")
    /\ ocr_call.result = "chinese"

\* a failed detection
C24_WitnessFailed ==
    /\ ocr_call.op = "detect_language"
    /\ ocr_call.osd.raised
    /\ ocr_call.result = "english"

-----------------------------------------------------------------------------
(* Properties of the processing options *)

\* process_documents was called with the options the user had set
OptionsSubmitted == pc = "loop" /\ runs = 1

\* C25: every (chunk_size, chunk_overlap) the controls can submit has
\* chunk_size in 500..2000, chunk_overlap in 50..500 and
\* chunk_overlap < chunk_size.
C25_OverlapBelowSize ==
    OptionsSubmitted =>
        /\ cfg.chunk_size \in 500..2000
        /\ cfg.chunk_overlap \in 50..500
        /\ cfg.chunk_overlap < cfg.chunk_size

\* C25 amended: every (chunk_size, chunk_overlap) the controls can submit has
\* chunk_size in 500..2000, chunk_overlap in 50..500 and
\* chunk_overlap <= chunk_size, with equality only for the pair (500, 500).
C25_OverlapAtMostSize ==
    OptionsSubmitted =>
        /\ cfg.chunk_size \in 500..2000
        /\ cfg.chunk_overlap \in 50..500
        /\ cfg.chunk_overlap <= cfg.chunk_size
        /\ cfg.chunk_overlap = cfg.chunk_size =>
              (cfg.chunk_size = 500 /\ cfg.chunk_overlap = 500)

\* the smallest chunk size submitted with the largest overlap
C25_Witness ==
    /\ OptionsSubmitted
    /\ cfg.chunk_size = 500
    /\ cfg.chunk_overlap = 500

-----------------------------------------------------------------------------
(* Properties of the session: process_documents and the session state *)

\* process_documents is running
InProcessDocuments == pc \in {"loop", "index"}

\* C26: while process_documents runs, the vector store handle and the
\* processed_docs list of the session stay what they were before the call, and
\* they are still that when it has failed (a file raised, or index creation
\* raised); they change only in the step in which the index was created after
\* every file was processed, and then processed_docs gains the names of all the
\* files of the batch in input order.
C26_SessionUnchangedOnError ==
    [][ /\ (pc = "idle" /\ pc' = "loop") =>
              (vectorstore' = vectorstore /\ processed_docs' = processed_docs)
        /\ InProcessDocuments =>
              IF pc' = "done"
              THEN /\ pc = "index"
                   /\ idx = Len(uploaded_files)
                   /\ Len(outcomes) = Len(uploaded_files)
                   /\ \A k \in 1..Len(outcomes) : outcomes[k].status = "returned"
                   /\ vectorstore' # None
                   /\ Len(processed_docs') = Len(processed_docs) + Len(uploaded_files)
                   /\ \A k \in 1..Len(processed_docs) : processed_docs'[k] = processed_docs[k]
                   /\ \A k \in 1..Len(uploaded_files) :
                         processed_docs'[Len(processed_docs) + k] = uploaded_files[k].name
              ELSE vectorstore' = vectorstore /\ processed_docs' = processed_docs
      ]_vars

\* a second run failed in a session that had a vector store and two processed
\* documents of different names, and the session still has them
C26_Witness ==
    /\ pc = "failed"
    /\ runs = 2
    /\ vectorstore # None
    /\ Len(processed_docs) = 2
    /\ processed_docs[1] # processed_docs[2]

\* a second run succeeded and added its two names after the earlier one
C26_WitnessAppended ==
    /\ pc = "done"
    /\ runs = 2
    /\ Len(processed_docs) = 3
    /\ Len(uploaded_files) = 2
    /\ uploaded_files[1].name # uploaded_files[2].name

-----------------------------------------------------------------------------
(* Properties of the session: clearing the database *)

\* the queries the model searches with, and the numbers of results asked for
Queries == {"test search", "a"}
ResultCounts == {1, 3}

\* clear_database returned and create_vectorstore has not returned since
ClearedAndNotCreatedSince == db.last_op = "clear"

\* between a clear_database that returned and the next create_vectorstore,
\* every search is empty, the count is 0 and the directory exists and is empty
DatabaseIsEmpty ==
    /\ \A query \in Queries, k \in ResultCounts : similarity_search(db, query, k) = <<>>
    /\ get_document_count(db) = 0
    /\ db.exists
    /\ db.documents = <<>>

C29_WitnessRaised ==
    /\ pc = "clear_failed"
    /\ current_model # "None"
    /\ ChatReachable

-----------------------------------------------------------------------------
(* Properties of get_file_info *)

\* get_file_info was called on the upload and process_file was called after it
ProcessedAfterInfo == file_infos # <<>> /\ outcomes # <<>>

\* what process_file returns, or raises, on the upload as it was before
\* get_file_info was called
WithoutInfo ==
    process_file(file_infos[1].arg, cfg.ocr_enabled, cfg.chunk_size, cfg.chunk_overlap).outcome

\* C27: calling get_file_info before process_file has no effect on the
\* processing: process_file returns the same chunks as it would without the
\* preceding call.
C27_InfoHasNoEffect ==
    ProcessedAfterInfo =>
        /\ outcomes[1].status = WithoutInfo.status
        /\ outcomes[1].documents = WithoutInfo.documents

\* what holds: get_file_info leaves the content of the upload alone and moves
\* its read position to the end, and an image upload, which Image.open rewinds,
\* is processed as it would be without the call
C27_InfoMovesPosition ==
    /\ file_infos # <<>> /\ outcomes = <<>> =>
          uploaded_files[1] = [file_infos[1].arg EXCEPT !.pos = Size(file_infos[1].arg)]
    /\ (ProcessedAfterInfo /\ file_infos[1].arg.fmt = "image"
         /\ file_extension(file_infos[1].arg) \in ImageExtensions) =>
          /\ outcomes[1].status = WithoutInfo.status
          /\ outcomes[1].documents = WithoutInfo.documents

\* a text upload that yields chunks without get_file_info was processed after it
C27_Witness ==
    /\ ProcessedAfterInfo
    /\ file_infos[1].arg.fmt = "text"
    /\ file_infos[1].info.size > 0
    /\ WithoutInfo.status = "returned"

-----------------------------------------------------------------------------
(* Extension resolution *)

\* str.upper() on one character
UpperChar(c) ==
    LET small == {d \in {"a", "b", "c", "d", "e", "f", "g", "h", "i", "j", "k", "l",
                          "m", "n", "o", "p", "q", "r", "s", "t", "u", "v", "w", "x",
                          "y", "z"} : d = c}
    IN  IF small = {} THEN c
        ELSE CHOOSE u \in {"A", "B", "C", "D", "E", "F", "G", "H", "I", "J", "K", "L",
                            "M", "N", "O", "P", "Q", "R", "S", "T", "U", "V", "W", "X",
                            "Y", "Z"} : LowerChar(u) = c

HasDot(name) == \E k \in 1..Len(name) : name[k] = "."

\* the names that differ from `name` only in the letter case of the extension
CaseVariants(name) ==
    LET e == LastDotPart(name)
        stem == SubSeq(name, 1, Len(name) - Len(e))
    IN  { stem \o [k \in 1..Len(e) |->
                     IF k \in S THEN UpperChar(e[k]) ELSE LowerChar(e[k])] :
            S \in SUBSET (1..Len(e)) }

\* the call o went the way process_file goes on the same upload named `name`:
\* same extractor result, same engine runs and temporary files, same outcome,
\* same chunks with the same file_type
ProcessedAs(o, name) ==
    LET r == process_file([o.arg EXCEPT !.name = name], cfg.ocr_enabled,
                          cfg.chunk_size, cfg.chunk_overlap)
    IN  /\ r.extracted = o.extracted
        /\ r.ocr_runs = o.ocr_runs
        /\ r.tmp_created = o.tmp_created
        /\ r.outcome.status = o.status
        /\ r.outcome.exc = o.exc
        /\ r.outcome.msg = o.msg
        /\ Len(r.outcome.documents) = Len(o.documents)
        /\ \A d \in 1..Len(o.documents) :
              /\ r.outcome.documents[d].page_content = o.documents[d].page_content
              /\ r.outcome.documents[d].metadata.file_type
                    = o.documents[d].metadata.file_type

\* C28: the extension is what follows the last '.' of the name, lower-cased:
\* names that differ only in the letter case of the extension are processed by
\* the same extractor and give the same file_type, which is the lower-cased
\* extension; png, jpg and jpeg go to the image extractor; and a call that ends
\* in the unsupported-format error has read nothing of the upload and created
\* no temporary file
C28_ExtensionResolution ==
    \A k \in 1..Len(outcomes) :
        LET o == outcomes[k]
            e == LastDotPart(o.arg.name)
        IN  HasDot(o.arg.name) =>
              /\ \A name \in CaseVariants(o.arg.name) : ProcessedAs(o, name)
              /\ \A d \in 1..Len(o.documents) :
                    o.documents[d].metadata.file_type
                        = [c \in 1..Len(e) |-> LowerChar(e[c])]
              /\ (\E name \in CaseVariants(o.arg.name) :
                        LastDotPart(name) \in ImageExtensions) =>
                    LET x == process_image(o.arg, cfg.ocr_enabled)
                    IN  /\ o.extracted = [ran |-> TRUE, text |-> x.text, exc |-> x.exc]
                        /\ o.ocr_runs = x.ocr_runs
                        /\ FileAfter(k) = x.file
              /\ (o.msg = MsgUnsupported) =>
                    /\ ~o.extracted.ran
                    /\ o.tmp_created = 0
                    /\ FileAfter(k) = o.arg

\* a text upload whose extension is written in capitals yielded chunks of
\* file_type txt
C28_Witness ==
    /\ outcomes # <<>>
    /\ outcomes[1].arg.name = NameBTXT
    /\ outcomes[1].status = "returned"
    /\ outcomes[1].documents[1].metadata.file_type = <<"t", "x", "t">>

\* an upload of an unsupported extension was refused unread, at a read position
\* that is not the end of the file
C28_WitnessUnsupported ==
    /\ outcomes # <<>>
    /\ outcomes[1].arg.name = NameCXyz
    /\ outcomes[1].msg = MsgUnsupported
    /\ uploaded_files[1].pos = 0
    /\ Size(uploaded_files[1]) > 0

\* an image upload whose extension is written in capitals went to the image
\* extractor
C28_WitnessImage ==
    /\ outcomes # <<>>
    /\ outcomes[1].arg.name = NameJPG
    /\ cfg.ocr_enabled
    /\ outcomes[1].ocr_runs = 1

-----------------------------------------------------------------------------
(* Where the OCR runs *)

\* C30: the OCR runs only where the native extraction gives nothing and OCR is
\* enabled: in a call on a PDF it is run on a page only if the page's native
\* text is blank and ocr_enabled is true, and on no page twice; in a call on an
\* image only if ocr_enabled is true; in a call on a txt or docx upload, or on
\* an upload that is refused, never
C30_OcrOnlyWhereNeeded ==
    \A k \in 1..Len(outcomes) :
        LET o == outcomes[k]
            ext == Lower(LastDotPart(o.arg.name))
        IN  /\ ext = <<"p", "d", "f">> =>
                  /\ o.ocr_runs = Len(o.ocr_pages)
                  /\ \A j \in 1..Len(o.ocr_pages) :
                        /\ o.ocr_pages[j] \in 1..Len(o.arg.pages)
                        /\ Strip(o.arg.pages[o.ocr_pages[j]].native) = <<>>
                        /\ cfg.ocr_enabled
                        /\ \A i \in 1..Len(o.ocr_pages) :
                              o.ocr_pages[i] = o.ocr_pages[j] => i = j
            /\ ext \in ImageExtensions =>
                  /\ o.ocr_runs <= 1
                  /\ o.ocr_runs = 1 => cfg.ocr_enabled
            /\ ext \notin ImageExtensions \cup {<<"p", "d", "f">>} => o.ocr_runs = 0

\* with OCR enabled, a PDF of a page with native text and a page without had
\* the OCR run on the second of them only
C30_Witness ==
    /\ outcomes # <<>>
    /\ cfg.ocr_enabled
    /\ outcomes[1].arg.fmt = "pdf"
    /\ Len(outcomes[1].arg.pages) = 2
    /\ outcomes[1].ocr_pages = <<2>>

\* with OCR disabled, a PDF with a blank page was extracted without the OCR
C30_WitnessDisabledPdf ==
    /\ outcomes # <<>>
    /\ ~cfg.ocr_enabled
    /\ outcomes[1].arg.fmt = "pdf"
    /\ \E j \in 1..Len(outcomes[1].arg.pages) : Strip(outcomes[1].arg.pages[j].native) = <<>>
    /\ outcomes[1].extracted.ran
    /\ outcomes[1].extracted.exc = ""
    /\ outcomes[1].ocr_runs = 0

\* a docx upload was extracted with OCR enabled and the OCR did not run
C30_WitnessDocx ==
    /\ outcomes # <<>>
    /\ cfg.ocr_enabled
    /\ outcomes[1].arg.fmt = "docx"
    /\ outcomes[1].status = "returned"
    /\ outcomes[1].ocr_runs = 0

====
